---- MODULE Spec2Model ----
(***************************************************************************)
(* State-machine model of the file intake and upload-coordination pipeline *)
(* of blinkapp-desktop: the renderer's processing queue (App-simple.tsx),  *)
(* the main-process upload service (oneDriveService.ts), the credential    *)
(* manager (AuthService) and the drop folder on disk.                      *)
(*                                                                         *)
(* Sequences are 1-based here; index i of the model is index i-1 of the    *)
(* TypeScript arrays.                                                      *)
(***************************************************************************)
EXTENDS Integers, Sequences, FiniteSets, TLC

(***************************************************************************)
(* Bounds of the model.                                                    *)
(***************************************************************************)
\* number of queue entries created in one behaviour (also the timestamps)
MaxClock == 2
\* number of user commands in one behaviour: clicks on Process File, Retry,
\* Process All and Remove, and edits of an entry's folder, tags or name
MaxCommands == 4
\* number of handleProcessAllFiles loops in flight at once
MaxBatches == 1

(***************************************************************************)
(* Input domains.                                                          *)
(***************************************************************************)
\* the listing of the drop folder at startup.  A path is kept split at its
\* separators: directory segments and file name; a file name is the sequence
\* of its characters
DropFolder ==
    << [dir |-> <<"E:", "Drop">>,     name |-> <<"a", ".", "p">>],
       [dir |-> <<"E:", "OneDrive">>, name |-> <<"b", ".", "p">>] >>

Paths == {DropFolder[j] : j \in 1..Len(DropFolder)}

\* values of preferences.oneDriveRootFolder found in preferences.json
RootFolders == {"/"}

\* folders the user types into the target-folder input
UserFolders == {"Finance/2024"}

\* tag ids offered by the tag picker
TagIds == {7}

\* tag ids offered by the tag picker in SpecTags
PickerTagIds == {7, 8, 9}

\* names the user types into the filename input
TypedNames == { <<"n">> }

\* length of the names the user types in SpecRename
MaxNameLen == 2

\* characters of those names
Chars == {"n", "."}

\* names of up to n characters
Names(n) == UNION {[1..m -> Chars] : m \in 0..n}

\* names of the files dropped in SpecRename: an extension, none, a dotfile,
\* a trailing dot, two dots
FileNames ==
    { <<"a", ".", "p">>, <<"a">>, <<".", "p">>, <<"a", ".">>,
      <<"a", ".", "b", ".", "p">> }

\* HTTP statuses of a failed Graph request
FailStatuses == {401}

\* a request that got no response at all (error.request without
\* error.response)
NetworkError == 0

\* absent values: null, undefined
NoUser == "NoUser"
NoAuth == [none |-> TRUE]
NoDrive == <<>>
NoPrefs == "NoPrefs"
NoResult == [none |-> TRUE]
NoError == [kind |-> "none", status |-> 0, detail |-> ""]
NoBatch == [none |-> TRUE]
Accounts == {"u1"}

VARIABLES
    detectedFiles,        \* renderer: useState<FileProcessingState[]>
    currentUser,          \* renderer: useState<UserInfo | null>
    preferencesLoaded,    \* renderer: useState(false)
    loadedPreferencesRef, \* renderer: useRef<UserPreferences | null>
    runs,                 \* handleProcessSingleFile invocations in flight
    batches,              \* handleProcessAllFiles invocations in flight
    removals,             \* handleRemoveFile invocations awaiting deleteFile
    authUser,             \* main: AuthService.currentUser
    currentDriveId,       \* main: OneDriveService.currentDriveId
    disk,                 \* files present in the drop folder
    notifications,        \* "New File Detected" notifications on screen
    clock,                \* new Date() of the last entry created
    commands,             \* number of user commands issued so far
    lastOp,               \* the operation that made the last step
    fileWatcher,          \* main: BrokerDesktop.fileWatcher
    watchers,             \* chokidar watchers that are open
    db,                   \* main: DatabaseManager.db and the database file
    dateNow,              \* Date.now() of the main process
    clears,               \* handleClearAllFiles invocations awaiting deleteFile
    startup               \* start of the main process and of the window

vars == <<detectedFiles, currentUser, preferencesLoaded, loadedPreferencesRef,
          runs, batches, removals, authUser, currentDriveId, disk,
          notifications, clock, commands, lastOp, fileWatcher, watchers,
          db, dateNow, clears, startup>>

\* the watcher, the local store and the start of the main process
mainVars == <<fileWatcher, watchers, db, dateNow, startup>>

\* the application is up: initialize() of the main process is over, the
\* window is mounted and its checkAuthentication has been answered
StartupOver ==
    [ main |-> "done", window |-> TRUE, renderer |-> "done",
      persisted |-> NoUser, silent |-> FALSE, request |-> FALSE,
      toRenderer |-> <<>> ]

(***************************************************************************)
(* Helpers on sequences.                                                   *)
(***************************************************************************)
Indexes(q) == 1..Len(q)

\* prev.filter((_, i) => i !== index)
FilterIndex(q, index) ==
    [j \in 1..(Len(q) - (IF index \in Indexes(q) THEN 1 ELSE 0)) |->
        IF j < index THEN q[j] ELSE q[j + 1]]

\* prev.some(file => file.filePath === filePath)
Exists(q, filePath) == \E j \in Indexes(q) : q[j].filePath = filePath

\* detectedFiles.findIndex(f => f.filePath === filePath); 0 when absent
FindIndex(q, filePath) ==
    IF Exists(q, filePath)
    THEN CHOOSE j \in Indexes(q) :
            /\ q[j].filePath = filePath
            /\ \A k \in 1..(j - 1) : q[k].filePath # filePath
    ELSE 0

\* remove element k of a sequence of tasks
Drop(s, k) == [j \in 1..(Len(s) - 1) |-> IF j < k THEN s[j] ELSE s[j + 1]]

(***************************************************************************)
(* The folder watcher of the main process.  A FileWatcher object holds a   *)
(* chokidar watcher while it is started; the callback given by             *)
(* 'start-file-watcher' shows a notification and sends 'file-detected',    *)
(* the one given by 'restart-file-watcher' only sends 'file-detected'.     *)
(***************************************************************************)
NoWatcher == [none |-> TRUE]

\* the state of the renderer and of the services the upload goes through
rendererVars == <<detectedFiles, currentUser, preferencesLoaded,
                  loadedPreferencesRef, runs, batches, removals, authUser,
                  currentDriveId, disk, notifications, clock, commands,
                  clears>>

\* this.watcher.close(): one open watcher of this callback is closed
Closed(ws, notify) ==
    IF \E j \in 1..Len(ws) : ws[j].notify = notify
    THEN Drop(ws, CHOOSE j \in 1..Len(ws) :
                     /\ ws[j].notify = notify
                     /\ \A i \in 1..(j - 1) : ws[i].notify # notify)
    ELSE ws

\* the prior watcher is left as it is
NotStopped(fw, ws) == ws

\* if (this.fileWatcher) { this.fileWatcher.stop() }, where FileWatcher.stop
\* closes the watcher the object holds, if it holds one
Stopped(fw, ws) ==
    IF fw # NoWatcher /\ fw.watching THEN Closed(ws, fw.notify) ELSE ws

\* new FileWatcher(folderPath, callback) and its start(): chokidar.watch
\* gives the watcher, or throws
NewFileWatcher(notify, ok) == [notify |-> notify, watching |-> ok]

Watched(ws, notify, ok) ==
    IF ok THEN Append(ws, [notify |-> notify]) ELSE ws

\* ignored: /(^|[\/\\])\../: a segment of the path that begins with a dot
\* and goes on with another character
Ignored(filePath) ==
    /\ Len(filePath.name) >= 2
    /\ filePath.name[1] = "."

(***************************************************************************)
(* The local store of the main process: DatabaseManager.db, null or an     *)
(* open handle, and the tables of the database file it opens.              *)
(***************************************************************************)
CacheKeys == {"k"}

NoRow == [none |-> TRUE]

\* the rows of the three tables, and the last rowid each AUTOINCREMENT gave
EmptyTables ==
    [ processing_queue |-> <<>>,
      file_history     |-> <<>>,
      cache            |-> [key \in CacheKeys |-> NoRow],
      sequence         |-> [processing_queue |-> 0, file_history |-> 0] ]

\* new DatabaseManager(): db = null, and a database file without tables;
\* init records how initialize() ended
NoDb == [open |-> FALSE, tables |-> FALSE, init |-> "none"] @@ EmptyTables

\* after an initialize() that opened the file and created the tables
OpenDb == [open |-> TRUE, tables |-> TRUE, init |-> "ok"] @@ EmptyTables

\* Date.now() when the main process starts, and the step of the clock, in
\* milliseconds
BootTime == 30000

TickMs == 30000

\* the main process of a window that has just been constructed
MainInit ==
    /\ fileWatcher = NoWatcher
    /\ watchers = <<>>
    /\ db = OpenDb
    /\ dateNow = BootTime
    /\ clears = <<>>
    /\ startup = StartupOver

\* the main process after the renderer has asked for the watcher
MainStarted ==
    /\ fileWatcher = NewFileWatcher(TRUE, TRUE)
    /\ watchers = Watched(<<>>, TRUE, TRUE)
    /\ db = OpenDb
    /\ dateNow = BootTime
    /\ clears = <<>>
    /\ startup = StartupOver

(***************************************************************************)
(* Display folder of a new entry (handleFileDetected, lines 419-438).      *)
(***************************************************************************)
\* filePath.substring(0, filePath.indexOf('\\', 3)).includes('OneDrive'):
\* the prefix ends before the second separator, so it holds the drive and
\* the first directory only
FileDriveRootIsOneDrive(filePath) ==
    /\ Len(filePath.dir) >= 2
    /\ filePath.dir[2] = "OneDrive"

DisplayFolderFor(root, filePath) ==
    IF root = "/" \/ root = ""
    THEN IF FileDriveRootIsOneDrive(filePath)
         THEN "OneDrive Root (Configure in Settings)"
         ELSE "OneDrive Root"
    ELSE root

\* the mapping loadPreferences applies to entries already in the queue
ReloadedFolder(root) ==
    IF root = "/" \/ root = "" THEN "OneDrive Root" ELSE root

\* filePath.split('\\').pop()
FileNameOf(filePath) == filePath.name

NewFile(filePath, fileName, root, now) ==
    [ fileName       |-> fileName,
      displayName    |-> fileName,
      filePath       |-> filePath,
      timestamp      |-> now,
      selectedFolder |-> DisplayFolderFor(root, filePath),
      selectedTags   |-> <<>>,
      isProcessing   |-> FALSE,
      isProcessed    |-> FALSE,
      result         |-> NoResult,
      error          |-> NoError ]

(***************************************************************************)
(* Initial state: the window has just been constructed.                    *)
(***************************************************************************)
Constructed ==
    /\ detectedFiles = <<>>
    /\ currentUser = NoUser
    /\ preferencesLoaded = FALSE
    /\ loadedPreferencesRef = NoPrefs
    /\ runs = <<>>
    /\ batches = <<>>
    /\ removals = <<>>
    /\ authUser = NoAuth
    /\ currentDriveId = NoDrive
    /\ disk = Paths
    /\ notifications = {}
    /\ clock = 0
    /\ commands = 0
    /\ MainInit

Init ==
    /\ Constructed
    /\ lastOp = [op |-> "init", ts |-> 0]

(***************************************************************************)
(* Preferences.                                                            *)
(***************************************************************************)
\* prev.map(file => ({...file, selectedFolder: displayFolder}))
ReloadFolders(q, root) ==
    [j \in Indexes(q) |-> [q[j] EXCEPT !.selectedFolder = ReloadedFolder(root)]]

\* loadPreferences with a non-null preferences.json, followed by the effect
\* on [preferencesLoaded, preferences.oneDriveRootFolder] and, when the
\* dropFolderPath has changed, by the effect that starts the file watcher
loadPreferences(root) ==
    /\ preferencesLoaded' = TRUE
    /\ loadedPreferencesRef' = root
    /\ detectedFiles' = ReloadFolders(detectedFiles, root)
    /\ lastOp' = [op |-> "loadPreferences", ts |-> 0]
    /\ IF preferencesLoaded
       THEN UNCHANGED <<fileWatcher, watchers>>
       ELSE /\ fileWatcher' = NewFileWatcher(TRUE, TRUE)
            /\ watchers' = Watched(Stopped(fileWatcher, watchers), TRUE, TRUE)
    /\ UNCHANGED <<db, dateNow, startup, clears, currentUser, runs, batches,
                   removals, authUser,
                   currentDriveId, disk, notifications, clock, commands>>

(***************************************************************************)
(* Detection.                                                              *)
(***************************************************************************)
\* the update without its check for an entry of the same path
AddAlways(q, filePath, fileName, root, now) ==
    Append(q, NewFile(filePath, fileName, root, now))

\* the state update of handleFileDetected and of handleNotificationClicked
AddIfAbsent(q, filePath, fileName, root, now) ==
    IF ~Exists(q, filePath)
    THEN Append(q, NewFile(filePath, fileName, root, now))
    ELSE q

\* handleFileDetected(filePath): nothing happens before the preferences
\* are loaded
handleFileDetected(filePath, source) ==
    /\ preferencesLoaded
    /\ loadedPreferencesRef # NoPrefs
    /\ detectedFiles' = AddIfAbsent(detectedFiles, filePath,
                           FileNameOf(filePath), loadedPreferencesRef,
                           clock + 1)
    /\ clock' = IF Len(detectedFiles') > Len(detectedFiles)
                THEN clock + 1 ELSE clock
    /\ clock' <= MaxClock
    /\ lastOp' = [op |-> "detect", ts |-> 0, source |-> source,
                  filePath |-> filePath,
                  dup |-> Exists(detectedFiles, filePath)]

\* the watcher reports a file that was added or changed in the drop folder:
\* the main process shows a notification and sends 'file-detected'
FileReady(filePath) ==
    /\ \E j \in 1..Len(watchers) :
          notifications' = IF watchers[j].notify
                           THEN notifications \cup {filePath}
                           ELSE notifications
    /\ ~Ignored(filePath)
    /\ handleFileDetected(filePath, "watcher")
    /\ disk' = disk \cup {filePath}
    /\ UNCHANGED <<mainVars, clears,
                   currentUser, preferencesLoaded, loadedPreferencesRef, runs,
                   batches, removals, authUser, currentDriveId, commands>>

\* loadExistingFiles: one file of the listing of the drop folder
ScanFile(filePath) ==
    /\ filePath \in disk
    /\ handleFileDetected(filePath, "scan")
    /\ UNCHANGED <<mainVars, clears,
                   currentUser, preferencesLoaded, loadedPreferencesRef, runs,
                   batches, removals, authUser, currentDriveId, disk,
                   notifications, commands>>

\* handleNotificationClicked(data): the click on a notification on screen
handleNotificationClicked(filePath) ==
    /\ filePath \in notifications
    /\ handleFileDetected(filePath, "notification")
    /\ notifications' = notifications \ {filePath}
    /\ UNCHANGED <<mainVars, clears,
                   currentUser, preferencesLoaded, loadedPreferencesRef, runs,
                   batches, removals, authUser, currentDriveId, disk, commands>>

(***************************************************************************)
(* Per-file assignment by the user.  The inputs are rendered for entries   *)
(* that are not processed and are disabled without a signed-in user.       *)
(***************************************************************************)
Editable(index) ==
    /\ index \in Indexes(detectedFiles)
    /\ ~detectedFiles[index].isProcessed
    /\ currentUser # NoUser
    /\ commands < MaxCommands

\* String.prototype.lastIndexOf for one character; 0-based, -1 when absent
LastIndexOf(s, c) ==
    IF \E j \in 1..Len(s) : s[j] = c
    THEN (CHOOSE j \in 1..Len(s) :
            /\ s[j] = c
            /\ \A k \in (j + 1)..Len(s) : s[k] # c) - 1
    ELSE -1

\* String.prototype.substring(start): a negative start counts as 0
Substring(s, start) ==
    LET from == IF start < 0 THEN 0 ELSE start
    IN  SubSeq(s, from + 1, Len(s))

\* String.prototype.includes for one character
Includes(s, c) == \E j \in 1..Len(s) : s[j] = c

\* the update that stores the name as it was typed
FinalNameAsTyped(fileName, newName) == newName

\* the displayName handleFileNameChange stores
FinalName(fileName, newName) ==
    LET originalExtension == Substring(fileName, LastIndexOf(fileName, "."))
    IN  IF ~Includes(newName, ".") /\ originalExtension # <<>>
        THEN newName \o originalExtension
        ELSE newName

\* Array.prototype.filter(id => id !== tagId)
Without(tags, tagId) ==
    LET F[j \in 0..Len(tags)] ==
            IF j = 0 THEN <<>>
            ELSE IF tags[j] = tagId THEN F[j - 1] ELSE Append(F[j - 1], tags[j])
    IN  F[Len(tags)]

\* the update that adds the tag whether or not it is selected
AppendedTag(tags, tagId) == Append(tags, tagId)

\* the selectedTags handleFileTagToggle stores
ToggledTags(tags, tagId) ==
    IF \E j \in 1..Len(tags) : tags[j] = tagId
    THEN Without(tags, tagId)
    ELSE Append(tags, tagId)

\* what every edit of one entry leaves alone
EditFrame(index, op, input) ==
    /\ commands' = commands + 1
    /\ lastOp' = [op |-> op, ts |-> detectedFiles[index].timestamp,
                  input |-> input]
    /\ UNCHANGED <<mainVars, clears,
                   currentUser, preferencesLoaded, loadedPreferencesRef, runs,
                   batches, removals, authUser, currentDriveId, disk,
                   notifications, clock>>

handleFileFolderChange(index, newFolder) ==
    /\ Editable(index)
    /\ detectedFiles' =
          [detectedFiles EXCEPT ![index].selectedFolder = newFolder]
    /\ EditFrame(index, "assignFolder", newFolder)

\* click on "Apply to All" of an entry (rendered when the queue holds more
\* than one entry), confirmed: every entry gets the folder of that entry
handleApplyFolderToAll(index) ==
    /\ Editable(index)
    /\ Len(detectedFiles) > 1
    /\ detectedFiles' =
          [j \in Indexes(detectedFiles) |->
              [detectedFiles[j] EXCEPT
                  !.selectedFolder = detectedFiles[index].selectedFolder]]
    /\ EditFrame(index, "applyFolderToAll",
                 detectedFiles[index].selectedFolder)

handleFileTagToggle(index, tagId) ==
    /\ Editable(index)
    /\ detectedFiles' =
          [detectedFiles EXCEPT ![index].selectedTags = ToggledTags(@, tagId)]
    /\ EditFrame(index, "toggleTag", tagId)

handleFileNameChange(index, newName) ==
    /\ Editable(index)
    /\ detectedFiles' =
          [detectedFiles EXCEPT ![index].displayName =
              FinalName(detectedFiles[index].fileName, newName)]
    /\ EditFrame(index, "rename", newName)

(***************************************************************************)
(* Credential: sign-in, sign-out and expiry of the access token.           *)
(***************************************************************************)
\* handleAuthenticate -> 'authenticate-user' -> AuthService.authenticate
handleAuthenticate(account) ==
    /\ currentUser = NoUser
    /\ authUser' = [id |-> account, valid |-> TRUE]
    /\ currentUser' = account
    /\ lastOp' = [op |-> "authenticate", ts |-> 0]
    /\ UNCHANGED <<mainVars, clears,
                   detectedFiles, preferencesLoaded, loadedPreferencesRef,
                   runs, batches, removals, currentDriveId, disk,
                   notifications, clock, commands>>

\* handleSignOut -> 'sign-out-user' (the handler only logs and returns true)
handleSignOut ==
    /\ currentUser # NoUser
    /\ currentUser' = NoUser
    /\ lastOp' = [op |-> "signOut", ts |-> 0]
    /\ UNCHANGED <<mainVars, clears,
                   detectedFiles, preferencesLoaded, loadedPreferencesRef,
                   runs, batches, removals, authUser, currentDriveId, disk,
                   notifications, clock, commands>>

\* time passes beyond currentUser.expiresOn
TokenExpires ==
    /\ authUser # NoAuth
    /\ authUser.valid
    /\ authUser' = [authUser EXCEPT !.valid = FALSE]
    /\ lastOp' = [op |-> "tokenExpires", ts |-> 0]
    /\ UNCHANGED <<mainVars, clears, detectedFiles, currentUser, preferencesLoaded,
                   loadedPreferencesRef, runs, batches, removals,
                   currentDriveId, disk, notifications, clock, commands>>

(***************************************************************************)
(* Cancel: handleRemoveFile(index).                                        *)
(***************************************************************************)
\* click on Remove (rendered for entries that are not processed), confirmed:
\* deleteFile(file.filePath) is sent
handleRemoveFile(index) ==
    /\ index \in Indexes(detectedFiles)
    /\ ~detectedFiles[index].isProcessed
    /\ currentUser # NoUser
    /\ commands < MaxCommands
    /\ removals' = Append(removals,
                      [index |-> index,
                       filePath |-> detectedFiles[index].filePath,
                       ts |-> detectedFiles[index].timestamp])
    /\ commands' = commands + 1
    /\ lastOp' = [op |-> "cancel", ts |-> detectedFiles[index].timestamp]
    /\ UNCHANGED <<mainVars, clears, detectedFiles, currentUser, preferencesLoaded,
                   loadedPreferencesRef, runs, batches, authUser,
                   currentDriveId, disk, notifications, clock>>

\* 'delete-file' in the main process: fs.promises.unlink, true when it worked
Unlink(files, filePath, works) ==
    IF works /\ filePath \in files THEN files \ {filePath} ELSE files

\* the reply of deleteFile arrives (true, false or a rejected invoke): the
\* entry at the remembered index is filtered out in every case
RemoveFileDone(k, works) ==
    /\ k \in 1..Len(removals)
    /\ disk' = Unlink(disk, removals[k].filePath, works)
    /\ detectedFiles' = FilterIndex(detectedFiles, removals[k].index)
    /\ removals' = Drop(removals, k)
    /\ lastOp' = [op |-> "cancelDone", ts |-> removals[k].ts,
                  filePath |-> removals[k].filePath, works |-> works]
    /\ UNCHANGED <<mainVars, clears,
                   currentUser, preferencesLoaded, loadedPreferencesRef, runs,
                   batches, authUser, currentDriveId, notifications, clock,
                   commands>>

(***************************************************************************)
(* Clear All: handleClearAllFiles().                                       *)
(*                                                                         *)
(* A clear is one confirmed invocation that waits in Promise.all for the   *)
(* replies of its deleteFile calls: requested are the file paths it sent,  *)
(* pending those whose reply is still out, failed those whose deleteFile   *)
(* was rejected.                                                           *)
(***************************************************************************)
\* detectedFiles.filter(file => !file.isProcessed)
UnprocessedFiles(q) ==
    {q[j].filePath : j \in {i \in Indexes(q) : ~q[i].isProcessed}}

\* click on Clear All (rendered while the queue has entries, disabled
\* without a signed-in user).  Without an unprocessed file the list is
\* cleared at once; otherwise the user confirms and deleteFile is sent for
\* every unprocessed file.  (A declined confirm changes nothing.)
handleClearAllFiles ==
    /\ Len(detectedFiles) > 0
    /\ currentUser # NoUser
    /\ commands < MaxCommands
    /\ LET unprocessedFiles == UnprocessedFiles(detectedFiles)
       IN  /\ IF unprocessedFiles = {}
              THEN /\ detectedFiles' = <<>>
                   /\ clears' = clears
              ELSE /\ detectedFiles' = detectedFiles
                   /\ clears' = Append(clears,
                                   [requested |-> unprocessedFiles,
                                    pending |-> unprocessedFiles,
                                    failed |-> {}])
           /\ lastOp' = [op |-> "clearAll", ts |-> 0,
                         requested |-> unprocessedFiles]
    /\ commands' = commands + 1
    /\ UNCHANGED <<mainVars, currentUser, preferencesLoaded,
                   loadedPreferencesRef, runs, batches, removals, authUser,
                   currentDriveId, disk, notifications, clock>>

\* the reply of one deleteFile of a clear arrives (resolved, or rejected
\* and caught per file); after the last one Promise.all resolves and
\* setDetectedFiles([]) runs, whatever the results
ClearDeleteDone(c, filePath, works) ==
    /\ c \in 1..Len(clears)
    /\ filePath \in clears[c].pending
    /\ disk' = Unlink(disk, filePath, works)
    /\ LET pending == clears[c].pending \ {filePath}
           failed == IF works THEN clears[c].failed
                     ELSE clears[c].failed \cup {filePath}
       IN  IF pending = {}
           THEN /\ detectedFiles' = <<>>
                /\ clears' = Drop(clears, c)
                /\ lastOp' = [op |-> "cleared", ts |-> 0,
                              requested |-> clears[c].requested,
                              failed |-> failed]
           ELSE /\ detectedFiles' = detectedFiles
                /\ clears' = [clears EXCEPT ![c].pending = pending,
                                            ![c].failed = failed]
                /\ lastOp' = [op |-> "clearDelete", ts |-> 0,
                              filePath |-> filePath, works |-> works]
    /\ UNCHANGED <<mainVars, currentUser, preferencesLoaded,
                   loadedPreferencesRef, runs, batches, removals, authUser,
                   currentDriveId, notifications, clock, commands>>

\* the Clear All button and the replies to its deleteFile calls
ClearAll ==
    \/ handleClearAllFiles
    \/ \E c \in 1..Len(clears), filePath \in Paths, works \in BOOLEAN :
          ClearDeleteDone(c, filePath, works)


(***************************************************************************)
(* process(id): handleProcessSingleFile(index).                            *)
(*                                                                         *)
(* A run is one invocation.  It keeps the index it was invoked with and    *)
(* what it read from the entry `file` of the detectedFiles of its render:  *)
(* the timestamp, the upload call and the selected tags.  pc is the        *)
(* request the run is waiting for:                                         *)
(*   "ipc"      uploadToOneDrive sent, uploadFile not yet entered          *)
(*   "refresh"  acquireTokenSilent of refreshToken                         *)
(*   "drives"   GET /me/drives of getDefaultDrive                          *)
(*   "upload"   the upload requests: POST createUploadSession, PUT to the  *)
(*              session URL and, after a failure, PUT .../content          *)
(*   "assoc"    POST /api/file-tags/associations                           *)
(*   "delete"   deleteFile of the source file                              *)
(* accessToken is what getAccessToken returned to uploadFile, upload the   *)
(* item the upload returned, assoc the state of the association request.   *)
(***************************************************************************)
\* the update without error: undefined
MarkProcessingKeepingError(q, index) ==
    [j \in Indexes(q) |->
        IF j = index THEN [q[j] EXCEPT !.isProcessing = TRUE] ELSE q[j]]

\* prev.map((f, i) => i === index ? {...f, isProcessing: true, error: undefined} : f)
MarkProcessing(q, index) ==
    [j \in Indexes(q) |->
        IF j = index
        THEN [q[j] EXCEPT !.isProcessing = TRUE, !.error = NoError]
        ELSE q[j]]

\* the update without ...f: the entry is built anew from its file
MarkFailedReset(q, index, error) ==
    [j \in Indexes(q) |->
        IF j = index
        THEN [q[j] EXCEPT !.isProcessing = FALSE, !.error = error,
                          !.displayName = q[j].fileName,
                          !.selectedTags = <<>>]
        ELSE q[j]]

\* prev.map((f, i) => i === index ? {...f, isProcessing: false, error} : f)
MarkFailed(q, index, error) ==
    [j \in Indexes(q) |->
        IF j = index
        THEN [q[j] EXCEPT !.isProcessing = FALSE, !.error = error]
        ELSE q[j]]

\* prev.map((f, i) => i === index ? {...f, isProcessing: false, isProcessed: true, result} : f)
MarkProcessed(q, index, result) ==
    [j \in Indexes(q) |->
        IF j = index
        THEN [q[j] EXCEPT !.isProcessing = FALSE, !.isProcessed = TRUE,
                          !.result = result]
        ELSE q[j]]

\* the folder handed to uploadToOneDrive: undefined for 'OneDrive Root'
OneDriveFolder(file) ==
    IF file.selectedFolder = "OneDrive Root" THEN "undefined"
    ELSE file.selectedFolder

\* the arguments of window.electronAPI.uploadToOneDrive
UploadCall(file) ==
    [ filePath   |-> file.filePath,
      uploadName |-> file.displayName,
      folderPath |-> OneDriveFolder(file) ]

\* the item the Graph API returns for an upload
RemoteFile(call) == [id |-> call.filePath, name |-> call.uploadName]

\* the combined result stored on the entry
ProcessResult(oneDriveResult) == [file_id |-> oneDriveResult.id]

NewRun(file, index, batch) ==
    [ ts     |-> file.timestamp,
      index  |-> index,
      batch  |-> batch,
      pc     |-> "ipc",
      call   |-> UploadCall(file),
      tags   |-> file.selectedTags,
      accessToken |-> "none",
      tokenOf |-> NoUser,
      driveId |-> NoDrive,
      upload |-> NoResult,
      assoc  |-> "none" ]

\* the loop with a return after its first await: it is over when a run ends
BatchStopsAfterRun(bs, b) ==
    IF b = 0 THEN bs
    ELSE Drop(bs, CHOOSE j \in 1..Len(bs) : bs[j].id = b)

\* a run of batch b has ended: the loop of handleProcessAllFiles goes on to
\* its delay, or is over after the last file
BatchAfterRun(bs, b) ==
    IF b = 0 THEN bs
    ELSE LET n == CHOOSE j \in 1..Len(bs) : bs[j].id = b
         IN  IF bs[n].i < Len(bs[n].todo)
             THEN [bs EXCEPT ![n].state = "delay"]
             ELSE Drop(bs, n)

\* if (!file || file.isProcessing || file.isProcessed) return
MayProcess(file) == ~file.isProcessing /\ ~file.isProcessed

NotAuthenticated ==
    [kind |-> "notAuthenticated", status |-> 0, detail |-> ""]

\* the synchronous part of handleProcessSingleFile, up to its first await,
\* for the entry `file` of the invoking render and that render's user
StartRun(index, file, user, batch, op) ==
    /\ MayProcess(file)
    /\ IF user = NoUser
       THEN \* throw new Error('Please authenticate ...') and its catch
            /\ detectedFiles' =
                  MarkFailed(MarkProcessing(detectedFiles, index), index,
                             NotAuthenticated)
            /\ runs' = runs
       ELSE /\ detectedFiles' = MarkProcessing(detectedFiles, index)
            /\ runs' = Append(runs, NewRun(file, index, batch))
    /\ lastOp' = [op |-> op, ts |-> file.timestamp, started |-> user # NoUser]

\* click on "Process File" (needs a signed-in user) or on "Retry" (shown
\* with the error of a failed entry)
handleProcessSingleFile(index) ==
    /\ index \in Indexes(detectedFiles)
    /\ currentUser # NoUser \/ detectedFiles[index].error # NoError
    /\ commands < MaxCommands
    /\ StartRun(index, detectedFiles[index], currentUser, 0,
                IF detectedFiles[index].error # NoError
                THEN "retry" ELSE "process")
    /\ commands' = commands + 1
    /\ UNCHANGED <<mainVars, clears,
                   currentUser, preferencesLoaded, loadedPreferencesRef,
                   batches, removals, authUser, currentDriveId, disk,
                   notifications, clock>>

\* the run ends in the catch block of handleProcessSingleFile; `more` is
\* what the last step records besides
FailWith(k, error, more) ==
    /\ detectedFiles' = MarkFailed(detectedFiles, runs[k].index, error)
    /\ runs' = Drop(runs, k)
    /\ batches' = BatchAfterRun(batches, runs[k].batch)
    /\ lastOp' = [op |-> "failed", ts |-> runs[k].ts, error |-> error,
                  run |-> runs[k], requests |-> <<>>, urls |-> <<>>,
                  session |-> "none", fallback |-> "none",
                  response |-> NetworkError] @@ more

Fail(k, error) == FailWith(k, error, [op |-> "failed"])

\* the run goes on waiting for another request
Goto(k, pc, op) ==
    /\ runs' = [runs EXCEPT ![k].pc = pc]
    /\ lastOp' = [op |-> op, ts |-> runs[k].ts]
    /\ UNCHANGED <<mainVars, clears, detectedFiles, batches>>

\* const accessToken = await this.authService.getAccessToken();
\* const driveId = this.currentDriveId || ...
GotToken(k, pc, op) ==
    /\ runs' = [runs EXCEPT ![k].pc = pc, ![k].accessToken = "bearer",
                            ![k].tokenOf = authUser.id,
                            ![k].driveId = currentDriveId]
    /\ lastOp' = [op |-> op, ts |-> runs[k].ts]
    /\ UNCHANGED <<mainVars, clears, detectedFiles, batches>>

\* 'Upload error: ' + error.message
UploadError(detail) ==
    [kind |-> "uploadError", status |-> 0, detail |-> detail]
\* error.response.data of a failed Graph request
ErrorBody(status) ==
    IF status = 401 THEN "InvalidAuthenticationToken" ELSE "generalException"

\* `Upload failed with status ${error.response.status}:
\*  ${JSON.stringify(error.response.data)}`
UploadFailed(status) ==
    [kind |-> "uploadFailed", status |-> status, detail |-> ErrorBody(status)]

\* 'Network error during upload: ' + error.message
NetworkFailure ==
    [kind |-> "networkError", status |-> 0, detail |-> ""]

\* the error uploadFile throws for a request that failed with the answer
\* `status`
UploadFailure(status) ==
    IF status = NetworkError THEN NetworkFailure ELSE UploadFailed(status)
\* `Failed to create tag associations: ${tagResult.statusText}`
AssociationFailed ==
    [kind |-> "associationFailed", status |-> 0, detail |-> ""]

\* uploadFile after getAccessToken returned a token: the cached drive id or
\* getDefaultDrive, then fs.readFileSync and the session request
AfterToken(k, op) ==
    IF currentDriveId = NoDrive
    THEN GotToken(k, "drives", op)
    ELSE IF runs[k].call.filePath \in disk
         THEN GotToken(k, "upload", op)
         ELSE Fail(k, UploadError("ENOENT"))

\* getAccessToken without its isTokenValid check: the cached token is
\* returned whatever its expiresOn
UploadFileBeginUnchecked(k) ==
    /\ k \in 1..Len(runs)
    /\ runs[k].pc = "ipc"
    /\ IF authUser = NoAuth
       THEN Fail(k, UploadError("User not authenticated"))
       ELSE AfterToken(k, "getAccessToken")
    /\ UNCHANGED <<mainVars, clears,
                   currentUser, preferencesLoaded, loadedPreferencesRef,
                   removals, authUser, currentDriveId, disk, notifications,
                   clock, commands>>

\* uploadFile is entered and calls getAccessToken
UploadFileBegin(k) ==
    /\ k \in 1..Len(runs)
    /\ runs[k].pc = "ipc"
    /\ IF authUser = NoAuth
       THEN Fail(k, UploadError("User not authenticated"))
       ELSE IF authUser.valid
            THEN AfterToken(k, "getAccessToken")
            ELSE Goto(k, "refresh", "getAccessToken")
    /\ UNCHANGED <<mainVars, clears,
                   currentUser, preferencesLoaded, loadedPreferencesRef,
                   removals, authUser, currentDriveId, disk, notifications,
                   clock, commands>>

\* acquireTokenSilent of refreshToken answers
RefreshTokenDone(k, ok) ==
    /\ k \in 1..Len(runs)
    /\ runs[k].pc = "refresh"
    /\ IF ok
       THEN /\ authUser' = [authUser EXCEPT !.valid = TRUE]
            /\ AfterToken(k, "refreshed")
       ELSE /\ authUser' = authUser
            /\ Fail(k, UploadError("Token expired and refresh failed"))
    /\ UNCHANGED <<mainVars, clears,
                   currentUser, preferencesLoaded, loadedPreferencesRef,
                   removals, currentDriveId, disk, notifications, clock,
                   commands>>

\* the drive getDefaultDrive selects for an account
DriveOf(account) == <<"drive", account>>

\* the drives GET /me/drives lists for an account
DrivesOf(account) ==
    << [id |-> DriveOf(account), driveType |-> "personal",
        name |-> "OneDrive"] >>

\* the lists of drives GET /me/drives may answer: the first drive of a list
\* has the id d1, the second d2
DriveTypes == {"personal", "business"}

DriveNames == {"", "Docs", "OneDrive - Broadlink"}

DriveLists ==
    UNION { { [i \in 1..n |-> [id |-> <<"drive", IF i = 1 THEN "d1" ELSE "d2">>,
                               driveType |-> t[i], name |-> m[i]]]
                : t \in [1..n -> DriveTypes], m \in [1..n -> DriveNames] }
            : n \in 0..2 }

\* drive.name && drive.name.toLowerCase().includes('onedrive')
NamedOneDrive(drive) == drive.name = "OneDrive - Broadlink"

\* drive.driveType === 'personal'
IsPersonal(drive) == drive.driveType = "personal"

\* drives.find(...): the first drive of `found`, the drives that pass the
\* test, in the order of the list
Find(found) == found[1]

NoneFound == [id |-> NoDrive]

\* the selection without the look at the names of the drives
PersonalOrFirst(drives) ==
    IF SelectSeq(drives, IsPersonal) # <<>>
    THEN Find(SelectSeq(drives, IsPersonal))
    ELSE IF Len(drives) > 0 THEN drives[1]
    ELSE NoneFound

\* the drive getDefaultDrive selects: a personal drive, else a drive with
\* OneDrive in its name, else the first drive
SelectedDrive(drives) ==
    IF SelectSeq(drives, IsPersonal) # <<>>
    THEN Find(SelectSeq(drives, IsPersonal))
    ELSE IF SelectSeq(drives, NamedOneDrive) # <<>>
    THEN Find(SelectSeq(drives, NamedOneDrive))
    ELSE IF Len(drives) > 0 THEN drives[1]
    ELSE NoneFound

\* throw new Error('No OneDrive drives found. ...'), as uploadFile rethrows
\* it
NoDriveFound == UploadError("No OneDrive drives found")

\* getDefaultDrive inside uploadFile: GET /me/drives answers with `status`
\* (200 is success) and the list `drives`
getDefaultDrive(k, status, drives) ==
    /\ k \in 1..Len(runs)
    /\ runs[k].pc = "drives"
    /\ IF status = 200
       THEN LET drive == SelectedDrive(drives)
                resolve == [resolve |-> [drives |-> drives,
                                         selected |-> drive.id]]
            IN  IF drive = NoneFound
                THEN /\ currentDriveId' = currentDriveId
                     /\ FailWith(k, NoDriveFound, resolve)
                ELSE /\ currentDriveId' = drive.id
                     /\ IF runs[k].call.filePath \in disk
                        THEN /\ runs' = [runs EXCEPT ![k].pc = "upload",
                                                     ![k].driveId = drive.id]
                             /\ lastOp' = [op |-> "drive", ts |-> runs[k].ts]
                                          @@ resolve
                             /\ UNCHANGED <<mainVars, clears, detectedFiles, batches>>
                        ELSE FailWith(k, UploadError("ENOENT"), resolve)
       ELSE /\ currentDriveId' = currentDriveId
            /\ Fail(k, UploadFailed(status))
    /\ UNCHANGED <<mainVars, clears,
                   currentUser, preferencesLoaded, loadedPreferencesRef,
                   removals, authUser, disk, notifications, clock, commands>>

\* getDefaultDrive for the account that is signed in: GET /me/drives goes
\* out, with the token of that account, as soon as getAccessToken returned
GetDefaultDriveDone(k, status) ==
    getDefaultDrive(k, status, DrivesOf(runs[k].tokenOf))

\* the requests uploadFile sends after reading the file, given what the
\* Graph API answers: the session is created and the bytes are PUT to it;
\* when either request fails the bytes are PUT to .../content instead
UploadRequests(createOk, putOk) ==
    <<"createUploadSession">>
    \o (IF createOk THEN <<"putSession">> ELSE <<>>)
    \o (IF createOk /\ putOk THEN <<>> ELSE <<"putContent">>)

\* a folder path as the text it is: a sequence of separators and of words
\* without a separator
MaxPathLen == 5

PathWords == {"E:", "365", "OneDrive - Broadlink", "x", "root"}

Separators == {"\\", "/"}

FolderTexts ==
    UNION { [1..n -> PathWords \cup Separators] : n \in 0..MaxPathLen }

\* folderPath of a call without a folder
Undefined == <<"undefined">>

\* String.prototype.startsWith
StartsWith(s, prefix) ==
    /\ Len(s) >= Len(prefix)
    /\ SubSeq(s, 1, Len(prefix)) = prefix

\* the path as it is given, no prefix taken off
NotStripped(s, prefix) == s

\* s.replace(/^prefix/, ''), s.startsWith(prefix) ? s.substring(prefix.length)
\* : s
Stripped(s, prefix) ==
    IF StartsWith(s, prefix) THEN SubSeq(s, Len(prefix) + 1, Len(s)) ELSE s

\* s.replace(/\\/g, '/')
Slashed(s) == [j \in 1..Len(s) |-> IF s[j] = "\\" THEN "/" ELSE s[j]]

\* /^E:\\365\\/
LocalRoot == <<"E:", "\\", "365", "\\">>

\* 'OneDrive - Broadlink/'
RootAlias == <<"OneDrive - Broadlink", "/">>

\* let targetPath = 'root'; if (folderPath && folderPath !== 'root' &&
\* folderPath !== '') { ... }
TranslatedPath(folderPath) ==
    IF folderPath \in {Undefined, <<"root">>, <<>>} THEN <<"root">>
    ELSE IF Includes(folderPath, "\\")
         THEN Stripped(Slashed(Stripped(folderPath, LocalRoot)), RootAlias)
         ELSE Stripped(folderPath, RootAlias)

\* the texts of the folders of the upload calls
TextOf(folderPath) ==
    CASE folderPath = "undefined" -> Undefined
      [] folderPath = "" -> <<>>
      [] folderPath = "Finance/2024" -> <<"Finance", "/", "2024">>
      [] folderPath = "OneDrive - Broadlink/Finance/2024" ->
            RootAlias \o <<"Finance", "/", "2024">>
      [] OTHER -> <<folderPath>>

Joined(text) ==
    CASE text = <<"Finance", "/", "2024">> -> "Finance/2024"
      [] Len(text) = 1 -> text[1]
      [] OTHER -> "?"

\* the folder of the upload URLs: 'root' by default, else the folder without
\* the alias of the local root
TargetPath(folderPath) == Joined(TranslatedPath(TextOf(folderPath)))

\* uploadFile translates the folder path of its call
TranslateFolderPath ==
    /\ lastOp.op = "uploadFile"
    /\ lastOp' = [op |-> "targetPath", ts |-> 0,
                  folderPath |-> lastOp.folderPath,
                  targetPath |-> TranslatedPath(lastOp.folderPath)]
    /\ UNCHANGED <<rendererVars, mainVars>>

\* SpecPaths: uploadFile is called with a folder path, any text or none, and
\* translates it
InitPaths ==
    /\ Constructed
    /\ lastOp \in { [op |-> "uploadFile", ts |-> 0, folderPath |-> folderPath]
                      : folderPath \in FolderTexts \cup {Undefined} }

NextPaths == TranslateFolderPath

SpecPaths == InitPaths /\ [][NextPaths]_vars


\* .../drives/${driveId}/root:/${targetPath}/${fileName}:/createUploadSession
SessionUrl(driveId, targetPath, fileName) ==
    [drive |-> driveId, path |-> targetPath, name |-> fileName,
     end |-> "createUploadSession"]

\* sessionResponse.data.uploadUrl
SessionUploadUrl(driveId, targetPath, fileName) ==
    [drive |-> driveId, path |-> targetPath, name |-> fileName,
     end |-> "uploadUrl"]

\* .../drives/${driveId}/root:/${targetPath}/${fileName}:/content
FallbackUploadUrl(driveId, targetPath, fileName) ==
    [drive |-> driveId, path |-> targetPath, name |-> fileName,
     end |-> "content"]

\* the URLs of the requests of UploadRequests, in the same order
UploadUrls(call, driveId, createOk, putOk) ==
    LET targetPath == TargetPath(call.folderPath)
    IN  << SessionUrl(driveId, targetPath, call.uploadName) >>
        \o (IF createOk
            THEN << SessionUploadUrl(driveId, targetPath, call.uploadName) >>
            ELSE <<>>)
        \o (IF createOk /\ putOk THEN <<>>
            ELSE << FallbackUploadUrl(driveId, targetPath, call.uploadName) >>)

\* file.selectedTags.map(tagId => ({file_id: oneDriveResult.id,
\*                                   tag_id: tagId, ...}))
Associations(tags, oneDriveResult) ==
    [i \in 1..Len(tags) |->
        [file_id |-> oneDriveResult.id, tag_id |-> tags[i],
         item_type |-> "file", drive_id |-> "onedrive"]]

\* the request is sent whether tags are selected or not
AssociationRequestsAlways(tags, oneDriveResult) ==
    << [url |-> "/api/file-tags/associations",
        associations |-> Associations(tags, oneDriveResult)] >>

\* if (file.selectedTags.length > 0) fetch(.../api/file-tags/associations)
AssociationRequests(tags, oneDriveResult) ==
    IF Len(tags) > 0
    THEN << [url |-> "/api/file-tags/associations",
             associations |-> Associations(tags, oneDriveResult)] >>
    ELSE <<>>

\* what the last step records of the association request that follows the
\* upload
AssociationRecord(tags, oneDriveResult) ==
    [ oneDriveResult      |-> oneDriveResult,
      associationRequests |-> AssociationRequests(tags, oneDriveResult) ]

\* what the last step records of the requests of uploadFile
UploadRecord(call, driveId, createOk, putOk, status) ==
    [ requests |-> UploadRequests(createOk, putOk),
      urls     |-> UploadUrls(call, driveId, createOk, putOk),
      session  |-> IF createOk /\ putOk THEN "ok" ELSE "failed",
      fallback |-> IF createOk /\ putOk THEN "none"
                   ELSE IF status = 200 THEN "ok" ELSE "failed",
      response |-> status ]

\* uploadFile without its fallback: only the session upload counts
UploadSucceedsBySessionOnly(createOk, putOk, status) == createOk /\ putOk

\* uploadFile succeeds when the session upload or the fallback succeeded
UploadSucceeds(createOk, putOk, status) ==
    (createOk /\ putOk) \/ status = 200

\* the upload requests of the run have been answered; status is the answer
\* to the fallback PUT: 200 for success, NetworkError for no response
UploadRequestsDone(k, createOk, putOk, status) ==
    /\ k \in 1..Len(runs)
    /\ runs[k].pc = "upload"
    /\ (createOk /\ putOk) => status = 200
    /\ IF UploadSucceeds(createOk, putOk, status)
       THEN /\ runs' = [runs EXCEPT
                   ![k].upload = RemoteFile(runs[k].call),
                   ![k].assoc = IF Len(runs[k].tags) > 0
                                THEN "sent" ELSE "skipped",
                   ![k].pc = IF Len(runs[k].tags) > 0
                             THEN "assoc" ELSE "delete"]
            /\ lastOp' = [op |-> "uploaded", ts |-> runs[k].ts,
                          run |-> runs[k]]
                         @@ UploadRecord(runs[k].call, runs[k].driveId,
                                         createOk, putOk, status)
                         @@ AssociationRecord(runs[k].tags,
                                              RemoteFile(runs[k].call))
            /\ UNCHANGED <<mainVars, clears, detectedFiles, batches>>
       ELSE /\ detectedFiles' = MarkFailed(detectedFiles, runs[k].index,
                                           UploadFailure(status))
            /\ runs' = Drop(runs, k)
            /\ batches' = BatchAfterRun(batches, runs[k].batch)
            /\ lastOp' = [op |-> "failed", ts |-> runs[k].ts,
                          error |-> UploadFailure(status),
                          run |-> runs[k]]
                         @@ UploadRecord(runs[k].call, runs[k].driveId,
                                         createOk, putOk, status)
    /\ UNCHANGED <<mainVars, clears,
                   currentUser, preferencesLoaded, loadedPreferencesRef,
                   removals, authUser, currentDriveId, disk, notifications,
                   clock, commands>>

\* the association request answers and tagResult.ok is not looked at
AssociationUnchecked(k, ok) ==
    /\ k \in 1..Len(runs)
    /\ runs[k].pc = "assoc"
    /\ runs' = [runs EXCEPT ![k].assoc = IF ok THEN "ok" ELSE "failed",
                            ![k].pc = "delete"]
    /\ lastOp' = [op |-> "associated", ts |-> runs[k].ts]
    /\ UNCHANGED <<mainVars, clears,
                   detectedFiles, batches, currentUser, preferencesLoaded,
                   loadedPreferencesRef, removals, authUser, currentDriveId,
                   disk, notifications, clock, commands>>

\* the association request answers
AssociationDone(k, ok) ==
    /\ k \in 1..Len(runs)
    /\ runs[k].pc = "assoc"
    /\ IF ok
       THEN /\ runs' = [runs EXCEPT ![k].assoc = "ok", ![k].pc = "delete"]
            /\ lastOp' = [op |-> "associated", ts |-> runs[k].ts]
            /\ UNCHANGED <<mainVars, clears, detectedFiles, batches>>
       ELSE Fail(k, AssociationFailed)
    /\ UNCHANGED <<mainVars, clears,
                   currentUser, preferencesLoaded, loadedPreferencesRef,
                   removals, authUser, currentDriveId, disk, notifications,
                   clock, commands>>

DeleteOutcomes == {"true", "false", "throws"}

\* the entry update after the deleteFile of a run, whatever its outcome
AfterDelete(q, index, result, outcome) == MarkProcessed(q, index, result)

\* deleteFile of the run answers true or false, or the invoke is rejected
DeleteFileDone(k, outcome) ==
    /\ k \in 1..Len(runs)
    /\ runs[k].pc = "delete"
    /\ outcome = "true" => runs[k].call.filePath \in disk
    /\ disk' = Unlink(disk, runs[k].call.filePath, outcome = "true")
    /\ detectedFiles' = AfterDelete(detectedFiles, runs[k].index,
                                    ProcessResult(runs[k].upload), outcome)
    /\ runs' = Drop(runs, k)
    /\ batches' = BatchAfterRun(batches, runs[k].batch)
    /\ lastOp' = [op |-> "processed", ts |-> runs[k].ts, outcome |-> outcome,
                  run |-> runs[k]]
    /\ UNCHANGED <<mainVars, clears,
                   currentUser, preferencesLoaded, loadedPreferencesRef,
                   removals, authUser, currentDriveId, notifications, clock,
                   commands>>

(***************************************************************************)
(* processAll(): handleProcessAllFiles.  On every turn the loop reads the  *)
(* detectedFiles of the render in which the button was clicked: todo holds *)
(* for each file of filesToProcess the index findIndex yields in that      *)
(* array and the entry found there.                                        *)
(***************************************************************************)
\* detectedFiles.filter(f => !f.isProcessed && !f.isProcessing)
FilesToProcess(q) ==
    LET F[j \in 0..Len(q)] ==
            IF j = 0 THEN <<>>
            ELSE IF ~q[j].isProcessed /\ ~q[j].isProcessing
                 THEN Append(F[j - 1], q[j]) ELSE F[j - 1]
    IN  F[Len(q)]

\* the turns of the loop over the render's detectedFiles
Turns(snap) ==
    LET files == FilesToProcess(snap)
    IN  [i \in 1..Len(files) |->
            [index |-> FindIndex(snap, files[i].filePath),
             file  |-> snap[FindIndex(snap, files[i].filePath)]]]

\* one turn of the loop: handleProcessSingleFile(fileIndex) of the render
\* of the click, in which a user was signed in
ProcessAllTurn(b, turn, op) ==
    /\ StartRun(turn.index, turn.file, "signedIn", b, op)
    /\ UNCHANGED <<mainVars, clears,
                   currentUser, preferencesLoaded, loadedPreferencesRef,
                   removals, authUser, currentDriveId, disk, notifications,
                   clock>>

\* click on "Process All": the button is rendered when more than one file
\* is ready and is disabled without a signed-in user
handleProcessAllFiles ==
    /\ currentUser # NoUser
    /\ Len(FilesToProcess(detectedFiles)) > 1
    /\ commands < MaxCommands
    /\ Len(batches) < MaxBatches
    /\ LET todo == Turns(detectedFiles)
           b == commands + 1
       IN  /\ ProcessAllTurn(b, todo[1], "processAll")
           /\ batches' = Append(batches,
                            [id |-> b, todo |-> todo, i |-> 1,
                             state |-> "run"])
    /\ commands' = commands + 1

\* the delay between two files is over: the next turn of the loop
ProcessAllNext(n) ==
    /\ n \in 1..Len(batches)
    /\ batches[n].state = "delay"
    /\ ProcessAllTurn(batches[n].id, batches[n].todo[batches[n].i + 1],
                      "processAllNext")
    /\ batches' = [batches EXCEPT ![n].i = @ + 1, ![n].state = "run"]
    /\ UNCHANGED commands

(***************************************************************************)
(* The specification.                                                      *)
(***************************************************************************)
Statuses == {200} \cup FailStatuses

\* the answers to the fallback PUT
FallbackAnswers == Statuses \cup {NetworkError}

\* the upload requests of a run are answered, the fallback PUT with one of
\* `answers`
UploadStep(answers) ==
    \E k \in 1..Len(runs), createOk \in BOOLEAN, putOk \in BOOLEAN,
       status \in answers : UploadRequestsDone(k, createOk, putOk, status)

\* steps of the runs in flight, with HTTP answers to every request
RunStep ==
    \/ \E k \in 1..Len(runs) : UploadFileBegin(k)
    \/ UploadStep(Statuses)
    \/ \E k \in 1..Len(runs), outcome \in DeleteOutcomes :
          DeleteFileDone(k, outcome)

Edit ==
    \/ \E index \in Indexes(detectedFiles), f \in UserFolders :
          handleFileFolderChange(index, f)
    \/ \E index \in Indexes(detectedFiles), t \in TagIds :
          handleFileTagToggle(index, t)
    \/ \E index \in Indexes(detectedFiles), n \in TypedNames :
          handleFileNameChange(index, n)

Cancel ==
    \/ \E index \in Indexes(detectedFiles) : handleRemoveFile(index)
    \/ \E k \in 1..Len(removals), works \in BOOLEAN : RemoveFileDone(k, works)

(***************************************************************************)
(* Spec: intake, from the construction of the window: preferences,         *)
(* sign-in, the three sources of detection, and cancel.                    *)
(***************************************************************************)
Next ==
    \/ \E root \in RootFolders : loadPreferences(root)
    \/ \E filePath \in Paths : FileReady(filePath)
    \/ \E filePath \in Paths : ScanFile(filePath)
    \/ \E filePath \in Paths : handleNotificationClicked(filePath)
    \/ \E account \in Accounts : handleAuthenticate(account)
    \/ Cancel

Spec == Init /\ [][Next]_vars

(***************************************************************************)
(* The watcher commands of the main process.                               *)
(***************************************************************************)
WatcherFrame(op, ok) ==
    /\ lastOp' = [op |-> op, ts |-> 0, ok |-> ok,
                  closed |-> Len(watchers) -
                             Len(Stopped(fileWatcher, watchers))]
    /\ UNCHANGED <<rendererVars, db, dateNow, startup>>

\* ipcMain.handle('start-file-watcher'): the prior FileWatcher is stopped,
\* a new one is constructed and started
startFileWatcher(ok) ==
    /\ fileWatcher' = NewFileWatcher(TRUE, ok)
    /\ watchers' = Watched(Stopped(fileWatcher, watchers), TRUE, ok)
    /\ WatcherFrame("startFileWatcher", ok)

\* ipcMain.handle('stop-file-watcher')
stopFileWatcher ==
    /\ fileWatcher' = NoWatcher
    /\ watchers' = Stopped(fileWatcher, watchers)
    /\ WatcherFrame("stopFileWatcher", TRUE)

\* ipcMain.handle('restart-file-watcher'): the FileWatcher is stopped and,
\* if preferences.json names a drop folder, a new one is started whose
\* callback only sends 'file-detected'
restartFileWatcher(hasDropFolder, ok) ==
    /\ fileWatcher' = IF hasDropFolder THEN NewFileWatcher(FALSE, ok)
                      ELSE NoWatcher
    /\ watchers' = IF hasDropFolder
                   THEN Watched(Stopped(fileWatcher, watchers), FALSE, ok)
                   ELSE Stopped(fileWatcher, watchers)
    /\ WatcherFrame("restartFileWatcher", hasDropFolder /\ ok)

(***************************************************************************)
(* SpecWatcher: the watcher is started, stopped and restarted while it     *)
(* reports files of the drop folder.                                       *)
(***************************************************************************)
NextWatcher ==
    \/ \E root \in RootFolders : loadPreferences(root)
    \/ \E ok \in BOOLEAN : startFileWatcher(ok)
    \/ stopFileWatcher
    \/ \E hasDropFolder, ok \in BOOLEAN : restartFileWatcher(hasDropFolder, ok)
    \/ \E filePath \in Paths : FileReady(filePath)

SpecWatcher == Init /\ [][NextWatcher]_vars

(***************************************************************************)
(* DatabaseManager.  Every method returns its mock answer while db is      *)
(* null; with an open handle a statement on a table that does not exist    *)
(* throws inside the method's try and the method returns its error answer. *)
(***************************************************************************)
\* rows a table may hold, and ticks of the clock, in a checked behaviour
MaxRows == 2

MaxTicks == 2

\* NULL in a column
SqlNull == "NULL"

\* value || null
OrNull(value) == IF value = "" THEN SqlNull ELSE value

\* CURRENT_TIMESTAMP: the time in whole seconds
CurrentTimestamp(ms) == ms \div 1000

\* the items the store is given: Omit<ProcessingQueueItem, 'id' | ...>;
\* tags, the text of a JSON array, is kept as the list of ids it writes
QueueItems ==
    { [filePath |-> filePath, fileName |-> FileNameOf(filePath),
       status |-> "pending", tags |-> tags, folderPath |-> folderPath]
        : filePath \in {DropFolder[1]}, tags \in {<<>>},
          folderPath \in {"", "Finance"} }

HistoryItems ==
    { [filePath |-> filePath, fileName |-> FileNameOf(filePath),
       tags |-> <<>>, folderPath |-> ""] : filePath \in Paths }

StatusUpdates ==
    { [status |-> "completed", errorMessage |-> ""],
      [status |-> "error", errorMessage |-> "e"] }

\* the values given to cacheData, and JSON.stringify / JSON.parse on them:
\* a number is written by its digits, a string between quotes, null as null
CacheValues ==
    { [type |-> "number", text |-> "1"],
      [type |-> "string", text |-> "1"],
      [type |-> "null",   text |-> ""] }

JsonNull == [type |-> "null", text |-> ""]

Stringify(value) ==
    CASE value.type = "number" -> <<value.text>>
      [] value.type = "string" -> <<"\"", value.text, "\"">>
      [] OTHER                 -> <<"null">>

Parse(json) ==
    IF json[1] = "\"" THEN [type |-> "string", text |-> json[2]]
    ELSE IF json = <<"null">> THEN JsonNull
    ELSE [type |-> "number", text |-> json[1]]

TtlMinutes == {-1, 0, 1}

Limits == 0..2

\* the method runs its mock branch
Mock == ~db.open

\* prepare() throws: no such table
Broken == db.open /\ ~db.tables

StoreFrame(op) ==
    /\ lastOp' = op
    /\ UNCHANGED <<rendererVars, fileWatcher, watchers, dateNow, startup>>

\* initialize(): new Database(dbPath) and createTables(); a failure to open
\* is caught by initialize, which sets db = null; a failure to create the
\* tables is caught by createTables itself
initialize(outcome) ==
    /\ db.init = "none"
    /\ db' = CASE outcome = "ok" ->
                    [db EXCEPT !.open = TRUE, !.tables = TRUE, !.init = "ok"]
               [] outcome = "openFails" ->
                    [db EXCEPT !.open = FALSE, !.init = "openFails"]
               [] OTHER ->
                    [db EXCEPT !.open = TRUE, !.init = "tablesFail"]
    /\ StoreFrame([op |-> "initialize", ts |-> 0, outcome |-> outcome])

InitOutcomes == {"ok", "openFails", "tablesFail"}

\* time passes
Tick ==
    /\ dateNow < BootTime + MaxTicks * TickMs
    /\ dateNow' = dateNow + TickMs
    /\ lastOp' = [op |-> "tick", ts |-> 0]
    /\ UNCHANGED <<rendererVars, fileWatcher, watchers, db, startup>>

\* INSERT INTO processing_queue ...; result.lastInsertRowid
QueueRow(item, id, ms) ==
    [ id |-> id, filePath |-> item.filePath, fileName |-> item.fileName,
      status |-> item.status, tags |-> item.tags,
      folderPath |-> OrNull(item.folderPath), errorMessage |-> SqlNull,
      createdAt |-> CurrentTimestamp(ms) ]

addToProcessingQueue(item) ==
    LET id == db.sequence.processing_queue + 1
    IN  /\ id <= MaxRows
        /\ db' = IF Mock \/ Broken THEN db
                 ELSE [db EXCEPT
                         !.processing_queue = Append(@, QueueRow(item, id, dateNow)),
                         !.sequence.processing_queue = id]
        /\ StoreFrame([op |-> "addToProcessingQueue", ts |-> 0, write |-> TRUE,
                       id |-> IF Mock THEN dateNow
                              ELSE IF Broken THEN 0 ELSE id])

\* the orders ORDER BY ... DESC may give rows of the times `at`: later times
\* first, rows of the same time in any order
Orderings(at) ==
    { p \in [1..Len(at) -> 1..Len(at)] :
        /\ \A i, j \in 1..Len(at) : i # j => p[i] # p[j]
        /\ \A i, j \in 1..Len(at) : i < j => at[p[i]] >= at[p[j]] }

Ordered(rows, p) == [i \in 1..Len(rows) |-> rows[p[i]]]

\* the column created_at of the rows
CreatedAt(rows) == [i \in 1..Len(rows) |-> rows[i].createdAt]

\* the column processed_at of the rows
ProcessedAt(rows) == [i \in 1..Len(rows) |-> rows[i].processedAt]

\* SELECT * FROM processing_queue ORDER BY created_at DESC
getProcessingQueue ==
    /\ UNCHANGED db
    /\ \E p \in Orderings(CreatedAt(db.processing_queue)) :
          StoreFrame([op |-> "getProcessingQueue", ts |-> 0, write |-> FALSE,
                      rows |-> IF Mock \/ Broken THEN <<>>
                               ELSE Ordered(db.processing_queue, p)])

\* UPDATE processing_queue SET status = ?, error_message = ? WHERE id = ?
updateProcessingStatus(id, update) ==
    /\ db' = IF Mock \/ Broken THEN db
             ELSE [db EXCEPT !.processing_queue =
                     [j \in 1..Len(@) |->
                        IF @[j].id = id
                        THEN [@[j] EXCEPT
                                !.status = update.status,
                                !.errorMessage = OrNull(update.errorMessage)]
                        ELSE @[j]]]
    /\ StoreFrame([op |-> "updateProcessingStatus", ts |-> 0, write |-> TRUE,
                   done |-> ~Broken])

\* DELETE FROM processing_queue WHERE id = ?
WithoutId(rows, id) ==
    IF \E j \in 1..Len(rows) : rows[j].id = id
    THEN Drop(rows, CHOOSE j \in 1..Len(rows) : rows[j].id = id)
    ELSE rows

removeFromProcessingQueue(id) ==
    /\ db' = IF Mock \/ Broken THEN db
             ELSE [db EXCEPT !.processing_queue = WithoutId(@, id)]
    /\ StoreFrame([op |-> "removeFromProcessingQueue", ts |-> 0,
                   write |-> TRUE, done |-> ~Broken])

\* INSERT INTO file_history ...; result.lastInsertRowid
HistoryRow(item, id, ms) ==
    [ id |-> id, filePath |-> item.filePath, fileName |-> item.fileName,
      tags |-> item.tags, folderPath |-> OrNull(item.folderPath),
      processedAt |-> CurrentTimestamp(ms) ]

addToFileHistory(item) ==
    LET id == db.sequence.file_history + 1
    IN  /\ id <= MaxRows
        /\ db' = IF Mock \/ Broken THEN db
                 ELSE [db EXCEPT
                         !.file_history = Append(@, HistoryRow(item, id, dateNow)),
                         !.sequence.file_history = id]
        /\ StoreFrame([op |-> "addToFileHistory", ts |-> 0, write |-> TRUE,
                       id |-> IF Mock THEN dateNow
                              ELSE IF Broken THEN 0 ELSE id])

\* LIMIT ?
Limited(rows, limit) ==
    [i \in 1..(IF limit < Len(rows) THEN limit ELSE Len(rows)) |-> rows[i]]

\* SELECT * FROM file_history ORDER BY processed_at DESC LIMIT ?
getFileHistory(limit) ==
    /\ UNCHANGED db
    /\ \E p \in Orderings(ProcessedAt(db.file_history)) :
          StoreFrame([op |-> "getFileHistory", ts |-> 0, write |-> FALSE,
                      limit |-> limit,
                      rows |-> IF Mock \/ Broken THEN <<>>
                               ELSE Limited(Ordered(db.file_history, p),
                                            limit)])

\* new Date(Date.now() + ttlMinutes * 60 * 1000)
ExpiresAt(ms, ttlMinutes) == ms + ttlMinutes * 60 * 1000

\* INSERT OR REPLACE INTO cache (key, value, expires_at); stored records
\* the value the row was written for
cacheData(key, value, ttlMinutes) ==
    /\ db' = IF Mock \/ Broken THEN db
             ELSE [db EXCEPT !.cache[key] =
                     [value |-> Stringify(value),
                      expiresAt |-> ExpiresAt(dateNow, ttlMinutes),
                      stored |-> value]]
    /\ StoreFrame([op |-> "cacheData", ts |-> 0, write |-> TRUE,
                   key |-> key, input |-> value, ttl |-> ttlMinutes,
                   done |-> ~Broken])

\* no row is ever taken as expired
ExpiredNever(row, ms) == FALSE

\* new Date(result.expires_at) < new Date()
Expired(row, ms) == row.expiresAt < ms

\* SELECT value, expires_at FROM cache WHERE key = ?; an expired row is
\* deleted and null is returned
getCachedData(key) ==
    LET row == db.cache[key]
        found == ~Mock /\ ~Broken /\ row # NoRow
    IN  /\ db' = IF found /\ Expired(row, dateNow)
                 THEN [db EXCEPT !.cache[key] = NoRow]
                 ELSE db
        /\ StoreFrame([op |-> "getCachedData", ts |-> 0, write |-> FALSE,
                       key |-> key,
                       evicted |-> found /\ Expired(row, dateNow),
                       absent |-> ~found \/ Expired(row, dateNow),
                       value |-> IF found /\ ~Expired(row, dateNow)
                                 THEN Parse(row.value) ELSE JsonNull])

\* DELETE FROM cache WHERE expires_at < CURRENT_TIMESTAMP
clearExpiredCache ==
    /\ db' = IF Mock \/ Broken THEN db
             ELSE [db EXCEPT !.cache =
                     [key \in CacheKeys |->
                        IF @[key] # NoRow /\ Expired(@[key], dateNow)
                        THEN NoRow ELSE @[key]]]
    /\ StoreFrame([op |-> "clearExpiredCache", ts |-> 0])

(***************************************************************************)
(* SpecStore: the DatabaseManager is constructed, initialized, and the     *)
(* methods of its processing queue and file history are called as time     *)
(* passes.                                                                 *)
(***************************************************************************)
InitStore ==
    /\ detectedFiles = <<>>
    /\ currentUser = NoUser
    /\ preferencesLoaded = FALSE
    /\ loadedPreferencesRef = NoPrefs
    /\ runs = <<>>
    /\ batches = <<>>
    /\ removals = <<>>
    /\ authUser = NoAuth
    /\ currentDriveId = NoDrive
    /\ disk = Paths
    /\ notifications = {}
    /\ clock = 0
    /\ commands = 0
    /\ lastOp = [op |-> "init", ts |-> 0]
    /\ fileWatcher = NoWatcher
    /\ watchers = <<>>
    /\ db = NoDb
    /\ dateNow = BootTime
    /\ clears = <<>>
    /\ startup = StartupOver

QueueOps ==
    \/ \E item \in QueueItems : addToProcessingQueue(item)
    \/ getProcessingQueue
    \/ \E id \in 1..MaxRows, update \in StatusUpdates :
          updateProcessingStatus(id, update)
    \/ \E id \in 1..MaxRows : removeFromProcessingQueue(id)

HistoryOps ==
    \/ \E item \in HistoryItems : addToFileHistory(item)
    \/ \E limit \in Limits : getFileHistory(limit)

CacheOps ==
    \/ \E key \in CacheKeys, value \in CacheValues, ttl \in TtlMinutes :
          cacheData(key, value, ttl)
    \/ \E key \in CacheKeys : getCachedData(key)
    \/ clearExpiredCache

NextStore ==
    \/ \E outcome \in InitOutcomes : initialize(outcome)
    \/ Tick
    \/ QueueOps
    \/ HistoryOps

SpecStore == InitStore /\ [][NextStore]_vars

(***************************************************************************)
(* SpecCache: the key/value cache of the store is written and read as time *)
(* passes.                                                                 *)
(***************************************************************************)
NextCache ==
    \/ \E outcome \in InitOutcomes : initialize(outcome)
    \/ Tick
    \/ CacheOps

SpecCache == InitStore /\ [][NextCache]_vars

(***************************************************************************)
(* ApiClient.getTagCategories behind 'get-tag-categories'.                 *)
(***************************************************************************)
CategoryIds == {1, 2}

FetchedTagIds == {7, 8}

\* the category ids tags may carry: 3 is the id of no category
TagCategoryIds == CategoryIds \cup {3}

\* lists without two elements of the same id
DistinctLists(ids) ==
    {<<>>} \cup {<<a>> : a \in ids}
           \cup {l \in ids \X ids : l[1] # l[2]}

\* GET /api/file-tag-categories
CategoryLists ==
    { [i \in 1..Len(l) |-> [id |-> l[i]]] : l \in DistinctLists(CategoryIds) }

\* GET /api/file-tags
TagLists ==
    UNION { { [i \in 1..Len(l) |-> [id |-> l[i], category_id |-> c[i]]]
                : c \in [1..Len(l) -> TagCategoryIds] }
            : l \in DistinctLists(FetchedTagIds) }

\* a request that was answered with this list, or that failed
Answers(lists) ==
    { [ok |-> TRUE, data |-> l] : l \in lists }
        \cup { [ok |-> FALSE, data |-> <<>>] }

\* every tag, whatever its category
AllTags(tags, category) == tags

\* tags.filter(tag => tag.category_id === category.id)
TagsOfCategory(tags, category) ==
    SelectSeq(tags, LAMBDA tag : tag.category_id = category.id)

\* categories.map(category => ({...category, tags: ...}))
CategoriesWithTags(categories, tags) ==
    [i \in 1..Len(categories) |->
        [tags |-> TagsOfCategory(tags, categories[i])] @@ categories[i]]

\* await Promise.all([get categories, get tags]); a rejection of either is
\* caught and [] is returned
getTagCategories(categoriesResponse, tagsResponse) ==
    /\ lastOp' = [op |-> "getTagCategories", ts |-> 0,
                  categoriesResponse |-> categoriesResponse,
                  tagsResponse |-> tagsResponse,
                  result |-> IF categoriesResponse.ok /\ tagsResponse.ok
                             THEN CategoriesWithTags(categoriesResponse.data,
                                                     tagsResponse.data)
                             ELSE <<>>]
    /\ UNCHANGED <<rendererVars, mainVars>>

(***************************************************************************)
(* SpecCategories: the tag categories are fetched, with every answer of    *)
(* the two requests.                                                       *)
(***************************************************************************)
NextCategories ==
    \E categoriesResponse \in Answers(CategoryLists),
       tagsResponse \in Answers(TagLists) :
        getTagCategories(categoriesResponse, tagsResponse)

SpecCategories == Init /\ [][NextCategories]_vars

(***************************************************************************)
(* SpecHidden: the drop folder also holds a hidden file when the window is *)
(* constructed; the watcher reports files and the folder is scanned.       *)
(***************************************************************************)
HiddenFile == [dir |-> <<"E:", "Drop">>, name |-> <<".", "p">>]

FolderFiles == Paths \cup {HiddenFile}

InitHidden ==
    /\ detectedFiles = <<>>
    /\ currentUser = NoUser
    /\ preferencesLoaded = FALSE
    /\ loadedPreferencesRef = NoPrefs
    /\ runs = <<>>
    /\ batches = <<>>
    /\ removals = <<>>
    /\ authUser = NoAuth
    /\ currentDriveId = NoDrive
    /\ disk = FolderFiles
    /\ notifications = {}
    /\ clock = 0
    /\ commands = 0
    /\ lastOp = [op |-> "init", ts |-> 0]
    /\ MainInit

NextHidden ==
    \/ \E root \in RootFolders : loadPreferences(root)
    \/ \E filePath \in FolderFiles : FileReady(filePath)
    \/ \E filePath \in FolderFiles : ScanFile(filePath)
    \/ \E filePath \in FolderFiles : handleNotificationClicked(filePath)

SpecHidden == InitHidden /\ [][NextHidden]_vars

(***************************************************************************)
(* SpecProcess: a signed-in session with the preferences loaded, the drive *)
(* resolved and the files of the drop folder listed in the queue; they are *)
(* assigned, processed, retried and cancelled.                             *)
(***************************************************************************)
\* loadExistingFiles: handleFileDetected for each file of the listing
Scanned(listing, root) ==
    LET F[j \in 0..Len(listing)] ==
            IF j = 0 THEN <<>>
            ELSE AddIfAbsent(F[j - 1], listing[j], FileNameOf(listing[j]),
                             root, j)
    IN  F[Len(listing)]

InitSignedIn ==
    /\ loadedPreferencesRef \in RootFolders
    /\ detectedFiles = Scanned(DropFolder, loadedPreferencesRef)
    /\ currentUser \in Accounts
    /\ preferencesLoaded = TRUE
    /\ runs = <<>>
    /\ batches = <<>>
    /\ removals = <<>>
    /\ authUser = [id |-> currentUser, valid |-> TRUE]
    /\ currentDriveId = DriveOf(currentUser)
    /\ disk = Paths
    /\ notifications = {}
    /\ clock = Len(detectedFiles)
    /\ commands = 0
    /\ lastOp = [op |-> "init", ts |-> 0]
    /\ MainStarted

NextProcess ==
    \/ Edit
    \/ Cancel
    \/ \E index \in Indexes(detectedFiles) : handleProcessSingleFile(index)
    \/ \E k \in 1..Len(runs), ok \in BOOLEAN : AssociationDone(k, ok)
    \/ RunStep

SpecProcess == InitSignedIn /\ [][NextProcess]_vars

(***************************************************************************)
(* SpecBatch: the same session with "Process All".                         *)
(***************************************************************************)
NextBatch ==
    \/ \E index \in Indexes(detectedFiles) : handleProcessSingleFile(index)
    \/ handleProcessAllFiles
    \/ \E n \in 1..Len(batches) : ProcessAllNext(n)
    \/ RunStep

SpecBatch == InitSignedIn /\ [][NextBatch]_vars

(***************************************************************************)
(* SpecBatchSignOut: the user signs out while "Process All" is at work.    *)
(***************************************************************************)
NextBatchSignOut ==
    \/ handleProcessAllFiles
    \/ \E n \in 1..Len(batches) : ProcessAllNext(n)
    \/ handleSignOut
    \/ RunStep

SpecBatchSignOut == InitSignedIn /\ [][NextBatchSignOut]_vars

(***************************************************************************)
(* SpecClear: the session of SpecProcess without the edits, with the       *)
(* Clear All button.                                                       *)
(***************************************************************************)
NextClear ==
    \/ Cancel
    \/ \E index \in Indexes(detectedFiles) : handleProcessSingleFile(index)
    \/ RunStep
    \/ ClearAll

SpecClear == InitSignedIn /\ [][NextClear]_vars


(***************************************************************************)
(* SpecRename: one file of any of FileNames is in the queue of a signed-in *)
(* session and the user types names into its filename input.               *)
(***************************************************************************)
InitRename ==
    /\ loadedPreferencesRef \in RootFolders
    /\ \E fileName \in FileNames :
          LET filePath == [dir |-> <<"E:", "Drop">>, name |-> fileName]
          IN  /\ detectedFiles =
                    AddIfAbsent(<<>>, filePath, FileNameOf(filePath),
                                loadedPreferencesRef, 1)
              /\ disk = {filePath}
    /\ currentUser \in Accounts
    /\ preferencesLoaded = TRUE
    /\ runs = <<>>
    /\ batches = <<>>
    /\ removals = <<>>
    /\ authUser = [id |-> currentUser, valid |-> TRUE]
    /\ currentDriveId = DriveOf(currentUser)
    /\ notifications = {}
    /\ clock = 1
    /\ commands = 0
    /\ lastOp = [op |-> "init", ts |-> 0]
    /\ MainStarted

NextRename ==
    \E index \in Indexes(detectedFiles), newName \in Names(MaxNameLen) :
        handleFileNameChange(index, newName)

SpecRename == InitRename /\ [][NextRename]_vars

(***************************************************************************)
(* SpecAssociate: the user selects tags of the picker for the files of the *)
(* queue and processes them.                                               *)
(***************************************************************************)
AssociateTagIds == {7, 8}

NextAssociate ==
    \/ \E index \in Indexes(detectedFiles), tagId \in AssociateTagIds :
          handleFileTagToggle(index, tagId)
    \/ \E index \in Indexes(detectedFiles) : handleProcessSingleFile(index)
    \/ \E k \in 1..Len(runs), ok \in BOOLEAN : AssociationDone(k, ok)
    \/ RunStep

SpecAssociate == InitSignedIn /\ [][NextAssociate]_vars

(***************************************************************************)
(* SpecDrive: a signed-in session whose drive is not resolved yet; the     *)
(* files of the queue are processed, and the drives are listed.            *)
(***************************************************************************)
InitDrive ==
    /\ loadedPreferencesRef \in RootFolders
    /\ detectedFiles = Scanned(DropFolder, loadedPreferencesRef)
    /\ currentUser \in Accounts
    /\ preferencesLoaded = TRUE
    /\ runs = <<>>
    /\ batches = <<>>
    /\ removals = <<>>
    /\ authUser = [id |-> currentUser, valid |-> TRUE]
    /\ currentDriveId = NoDrive
    /\ disk = Paths
    /\ notifications = {}
    /\ clock = Len(detectedFiles)
    /\ commands = 0
    /\ lastOp = [op |-> "init", ts |-> 0]
    /\ MainStarted

NextDrive ==
    \/ \E index \in Indexes(detectedFiles) : handleProcessSingleFile(index)
    \/ \E k \in 1..Len(runs), status \in Statuses, drives \in DriveLists :
          getDefaultDrive(k, status, drives)
    \/ RunStep

SpecDrive == InitDrive /\ [][NextDrive]_vars

(***************************************************************************)
(* findFolderByPath: a folder of the drive is its path from the root, a    *)
(* sequence of names; the drive is the set of its folders.                 *)
(***************************************************************************)
FolderNames == {"A", "B"}

MaxDepth == 2

\* the paths a caller asks for, as cleanPath.split('/') gives them
FolderPaths == UNION { [1..n -> FolderNames] : n \in 1..MaxDepth }

\* the drives: every folder of a drive has its parent in the drive
Drives ==
    { tree \in SUBSET FolderPaths :
        \A path \in tree :
            Len(path) > 1 => SubSeq(path, 1, Len(path) - 1) \in tree }

\* 'currentFolderId = root'
RootFolder == <<>>

\* '@microsoft.graph.conflictBehavior': 'rename': the name the drive gives a
\* new folder whose name is taken
RenamedFolder(name) == IF name = "A" THEN "A 1" ELSE "B 1"

\* createFolder(folderName, parentFolderId): the folder POST .../children
\* creates in `tree`
CreatedFolder(tree, folderName, parentFolderId) ==
    IF Append(parentFolderId, folderName) \in tree
    THEN Append(parentFolderId, RenamedFolder(folderName))
    ELSE Append(parentFolderId, folderName)

NoFolder == [found |-> FALSE, id |-> RootFolder]

\* for (const part of pathParts) { createFolder(part, currentFolderId) }:
\* the drive, the folder reached and the folders created, in order; the
\* call for part i succeeds when createOk[i]
RECURSIVE CreateParts(_, _, _, _, _)
CreateParts(tree, pathParts, createOk, currentFolderId, created) ==
    LET i == Len(created) + 1
    IN  IF i > Len(pathParts)
        THEN [tree |-> tree, failed |-> FALSE, id |-> currentFolderId,
              created |-> created]
        ELSE IF ~createOk[i]
        THEN [tree |-> tree, failed |-> TRUE, id |-> currentFolderId,
              created |-> created]
        ELSE LET folder == CreatedFolder(tree, pathParts[i], currentFolderId)
             IN  CreateParts(tree \cup {folder}, pathParts, createOk, folder,
                             Append(created, folder))

\* findFolderByPath(folderPath): GET root:/path answers 200 when the folder
\* exists and 404 when it does not, unless the request fails (getFails);
\* after the creations the folder is read again by its id (finalOk)
findFolderByPath(tree, pathParts, getFails, createOk, finalOk) ==
    LET run == CreateParts(tree, pathParts, createOk, RootFolder, <<>>)
        made == ~getFails /\ pathParts \notin tree
    IN  /\ lastOp' =
              [op |-> "findFolderByPath", ts |-> 0,
               tree |-> tree, pathParts |-> pathParts,
               after |-> IF made THEN run.tree ELSE tree,
               created |-> IF made THEN run.created ELSE <<>>,
               createFailed |-> made /\ run.failed,
               result |-> IF getFails THEN NoFolder
                          ELSE IF pathParts \in tree
                          THEN [found |-> TRUE, id |-> pathParts]
                          ELSE IF run.failed \/ ~finalOk THEN NoFolder
                          ELSE [found |-> TRUE, id |-> run.id]]
        /\ UNCHANGED <<rendererVars, mainVars>>

(***************************************************************************)
(* SpecFolders: folders are looked up by path in every drive, with every   *)
(* answer of the requests.                                                 *)
(***************************************************************************)
NextFolders ==
    \E tree \in Drives, pathParts \in FolderPaths, getFails \in BOOLEAN,
       createOk \in [1..MaxDepth -> BOOLEAN], finalOk \in BOOLEAN :
        findFolderByPath(tree, pathParts, getFails, createOk, finalOk)

SpecFolders == Init /\ [][NextFolders]_vars


(***************************************************************************)
(* SpecFolder: the user assigns folders to the files of the queue, applies *)
(* a folder to all of them and comes back to the file-processor tab, which *)
(* loads the preferences again, with the same or another root folder.      *)
(***************************************************************************)
SavedRootFolders == RootFolders \cup {"Clients"}

\* folders the user types or browses to in SpecFolder
AssignedFolders == UserFolders \cup {"Archive"}

\* handleTabChange('file-processor')
handleTabChange(root) == loadPreferences(root)

NextFolder ==
    \/ \E index \in Indexes(detectedFiles), newFolder \in AssignedFolders :
          handleFileFolderChange(index, newFolder)
    \/ \E index \in Indexes(detectedFiles) : handleApplyFolderToAll(index)
    \/ \E root \in SavedRootFolders : handleTabChange(root)

SpecFolder == InitSignedIn /\ [][NextFolder]_vars



(***************************************************************************)
(* SpecTags: the user clicks tags of the picker on and off for the files   *)
(* of the queue.                                                           *)
(***************************************************************************)
NextTags ==
    \E index \in Indexes(detectedFiles), tagId \in PickerTagIds :
        handleFileTagToggle(index, tagId)

SpecTags == InitSignedIn /\ [][NextTags]_vars

(***************************************************************************)
(* SpecAuth: the credential changes while files are processed: sign-in,    *)
(* sign-out, expiry and silent refresh of the token; a request of the      *)
(* upload may get no response.                                             *)
(***************************************************************************)
InitPrefsLoaded ==
    /\ detectedFiles = <<>>
    /\ currentUser = NoUser
    /\ preferencesLoaded = TRUE
    /\ loadedPreferencesRef \in RootFolders
    /\ runs = <<>>
    /\ batches = <<>>
    /\ removals = <<>>
    /\ authUser = NoAuth
    /\ currentDriveId = NoDrive
    /\ disk = Paths
    /\ notifications = {}
    /\ clock = 0
    /\ commands = 0
    /\ lastOp = [op |-> "init", ts |-> 0]
    /\ MainStarted

NextAuth ==
    \/ \E filePath \in Paths : ScanFile(filePath)
    \/ \E account \in Accounts : handleAuthenticate(account)
    \/ handleSignOut
    \/ TokenExpires
    \/ \E index \in Indexes(detectedFiles) : handleProcessSingleFile(index)
    \/ \E k \in 1..Len(runs), ok \in BOOLEAN : RefreshTokenDone(k, ok)
    \/ \E k \in 1..Len(runs), status \in Statuses :
          GetDefaultDriveDone(k, status)
    \/ \E k \in 1..Len(runs) : UploadFileBegin(k)
    \/ UploadStep(FallbackAnswers)
    \/ \E k \in 1..Len(runs), outcome \in DeleteOutcomes :
          DeleteFileDone(k, outcome)

SpecAuth == InitPrefsLoaded /\ [][NextAuth]_vars

(***************************************************************************)
(* SpecAccounts: the session of SpecAuth with two accounts: a user signs   *)
(* in, processes files, signs out, and another user signs in.              *)
(***************************************************************************)
TwoAccounts == Accounts \cup {"u2"}

NextAccounts ==
    \/ \E filePath \in Paths : ScanFile(filePath)
    \/ \E account \in TwoAccounts : handleAuthenticate(account)
    \/ handleSignOut
    \/ \E index \in Indexes(detectedFiles) : handleProcessSingleFile(index)
    \/ \E k \in 1..Len(runs), status \in Statuses :
          GetDefaultDriveDone(k, status)
    \/ RunStep

SpecAccounts == InitPrefsLoaded /\ [][NextAccounts]_vars

(***************************************************************************)
(* Start of the application: BrokerDesktop.initialize() in the main        *)
(* process and the mount effect of App in the window.                      *)
(*                                                                         *)
(* startup.main is "none" before initialize(), "checking" while            *)
(* checkExistingAuth() awaits the AuthService, "done" afterwards; window   *)
(* is this.mainWindow; renderer is "none" before the mount effect,         *)
(* "mounted" once the listener for 'user-authenticated' is registered,     *)
(* "asked" while getCurrentUser is awaited, "done" afterwards.  persisted  *)
(* is the account of the token cache, silent whether acquireTokenSilent    *)
(* yields a token for it.  request is the invoke of 'get-current-user' the *)
(* main process has not handled yet, toRenderer the messages of the main   *)
(* process to the window, in the order they were sent.                     *)
(***************************************************************************)
NotStarted(account, silent) ==
    [ main |-> "none", window |-> FALSE, renderer |-> "none",
      persisted |-> account, silent |-> silent, request |-> FALSE,
      toRenderer |-> <<>> ]

\* what only the start of the application changes
StartupFrame ==
    UNCHANGED <<fileWatcher, watchers, db, dateNow, detectedFiles,
                preferencesLoaded, loadedPreferencesRef, runs, batches,
                removals, currentDriveId, disk, notifications, clock,
                commands, clears>>

\* initialize(): checkExistingAuth() is called and not awaited, the IPC
\* handlers are set up and the main window is created in the same turn
BrokerDesktopInitialize ==
    /\ startup.main = "none"
    /\ startup' = [startup EXCEPT !.main = "checking", !.window = TRUE]
    /\ lastOp' = [op |-> "initialize", ts |-> 0]
    /\ UNCHANGED <<authUser, currentUser>>
    /\ StartupFrame

\* AuthService.checkExistingAuth(): the account of the token cache when
\* acquireTokenSilent yields a token for it, else null
ExistingAuth(s) ==
    IF s.persisted # NoUser /\ s.silent THEN s.persisted ELSE NoUser

\* checkExistingAuth of the main process resumes: the AuthService has set
\* its currentUser, and 'user-authenticated' is sent to the main window
\* when there is a user and a window
checkExistingAuthDone ==
    /\ startup.main = "checking"
    /\ LET user == ExistingAuth(startup)
       IN  /\ authUser' = IF user # NoUser
                          THEN [id |-> user, valid |-> TRUE] ELSE authUser
           /\ startup' =
                [startup EXCEPT
                    !.main = "done",
                    !.toRenderer =
                        IF user # NoUser /\ startup.window
                        THEN Append(@, [channel |-> "user-authenticated",
                                        user |-> user])
                        ELSE @]
           /\ lastOp' = [op |-> "checkExistingAuth", ts |-> 0, user |-> user]
    /\ UNCHANGED currentUser
    /\ StartupFrame

\* the mount effect of App: initializeApp() starts with loadPreferences()
\* and the listener for 'user-authenticated' is registered
AppMounted ==
    /\ startup.window
    /\ startup.renderer = "none"
    /\ startup' = [startup EXCEPT !.renderer = "mounted"]
    /\ lastOp' = [op |-> "mounted", ts |-> 0]
    /\ UNCHANGED <<authUser, currentUser>>
    /\ StartupFrame

\* loadPreferences() of initializeApp answers
InitialPreferences(root) ==
    /\ startup.renderer = "mounted"
    /\ ~preferencesLoaded
    /\ loadPreferences(root)

\* initializeApp resumes after loadPreferences: checkAuthentication()
\* invokes 'get-current-user'
checkAuthentication ==
    /\ startup.renderer = "mounted"
    /\ preferencesLoaded
    /\ startup' = [startup EXCEPT !.renderer = "asked", !.request = TRUE]
    /\ lastOp' = [op |-> "checkAuthentication", ts |-> 0]
    /\ UNCHANGED <<authUser, currentUser>>
    /\ StartupFrame

\* no user in the answer of 'get-current-user'
NullUser(auth) == NoUser

\* authService.getCurrentUser(): this.currentUser
getCurrentUser(auth) == IF auth = NoAuth THEN NoUser ELSE auth.id

\* ipcMain.handle('get-current-user') runs and answers
GetCurrentUserHandled ==
    /\ startup.request
    /\ startup' =
         [startup EXCEPT
             !.request = FALSE,
             !.toRenderer = Append(@, [channel |-> "get-current-user",
                                       user |-> getCurrentUser(authUser)])]
    /\ lastOp' = [op |-> "getCurrentUser", ts |-> 0,
                  user |-> getCurrentUser(authUser)]
    /\ UNCHANGED <<authUser, currentUser>>
    /\ StartupFrame

\* the window receives the oldest message of the main process:
\* 'user-authenticated' calls handleUserAuthenticated when the listener is
\* registered and is lost otherwise; the answer of getCurrentUser resumes
\* checkAuthentication.  Both call setCurrentUser(user).
RendererReceives ==
    /\ startup.toRenderer # <<>>
    /\ LET message == Head(startup.toRenderer)
           heard == \/ message.channel = "get-current-user"
                    \/ startup.renderer # "none"
       IN  /\ currentUser' = IF heard THEN message.user ELSE currentUser
           /\ startup' =
                [startup EXCEPT
                    !.toRenderer = Tail(@),
                    !.renderer = IF message.channel = "get-current-user"
                                 THEN "done" ELSE @]
           /\ lastOp' = [op |-> "received", ts |-> 0,
                         channel |-> message.channel, heard |-> heard]
    /\ UNCHANGED authUser
    /\ StartupFrame

(***************************************************************************)
(* SpecStartup: the application starts with or without an account in the   *)
(* token cache.  Every step is the turn of a pending promise or of a       *)
(* message in flight, which the event loops of the two processes           *)
(* eventually take.                                                        *)
(***************************************************************************)
InitStartup ==
    /\ detectedFiles = <<>>
    /\ currentUser = NoUser
    /\ preferencesLoaded = FALSE
    /\ loadedPreferencesRef = NoPrefs
    /\ runs = <<>>
    /\ batches = <<>>
    /\ removals = <<>>
    /\ authUser = NoAuth
    /\ currentDriveId = NoDrive
    /\ disk = Paths
    /\ notifications = {}
    /\ clock = 0
    /\ commands = 0
    /\ clears = <<>>
    /\ fileWatcher = NoWatcher
    /\ watchers = <<>>
    /\ db = OpenDb
    /\ dateNow = BootTime
    /\ \E account \in TwoAccounts \cup {NoUser}, silent \in BOOLEAN :
          startup = NotStarted(account, silent)
    /\ lastOp = [op |-> "init", ts |-> 0]

NextStartup ==
    \/ BrokerDesktopInitialize
    \/ checkExistingAuthDone
    \/ AppMounted
    \/ \E root \in SavedRootFolders : InitialPreferences(root)
    \/ checkAuthentication
    \/ GetCurrentUserHandled
    \/ RendererReceives

SpecStartup ==
    /\ InitStartup
    /\ [][NextStartup]_vars
    /\ WF_vars(BrokerDesktopInitialize)
    /\ WF_vars(checkExistingAuthDone)
    /\ WF_vars(AppMounted)
    /\ WF_vars(\E root \in SavedRootFolders : InitialPreferences(root))
    /\ WF_vars(checkAuthentication)
    /\ WF_vars(GetCurrentUserHandled)
    /\ WF_vars(RendererReceives)


(***************************************************************************)
(* Properties.                                                             *)
(***************************************************************************)
\* the entry created with timestamp ts is in the queue
Live(q, ts) == \E j \in Indexes(q) : q[j].timestamp = ts

\* the entry created with timestamp ts
Entry(q, ts) == q[CHOOSE j \in Indexes(q) : q[j].timestamp = ts]

NoTwoEntriesSamePath ==
    \A i, j \in Indexes(detectedFiles) :
        i # j => detectedFiles[i].filePath # detectedFiles[j].filePath

\* a detection of a path that has an entry in the queue
DuplicateDetection ==
    /\ lastOp'.op = "detect"
    /\ Exists(detectedFiles, lastOp'.filePath)

\* C1: whatever the watcher, the startup scan and the notification clicks
\* report, the queue never holds two entries with the same filePath, and a
\* detection of a path that has an entry in the queue leaves the queue as it
\* was.
C1_Uniqueness ==
    /\ []NoTwoEntriesSamePath
    /\ [][DuplicateDetection => detectedFiles' = detectedFiles]_vars

\* a file with an entry in the queue was reported again by the watcher, after
\* a second file had been queued
C1_Witness ==
    /\ lastOp.op = "detect"
    /\ lastOp.source = "watcher"
    /\ lastOp.dup
    /\ Len(detectedFiles) = 2

\* a run ends, in success or in failure, for an entry that was removed from
\* the queue while the run was in flight
LateResult ==
    /\ lastOp'.op \in {"failed", "processed"}
    /\ ~Live(detectedFiles, lastOp'.ts)

\* C2: when the run of a cancelled entry ends, its result is discarded: the
\* entry does not come back and no entry of the queue changes.
C2_LateResultDiscarded ==
    [][LateResult => detectedFiles' = detectedFiles]_vars

\* C3: at no time are two runs in flight for the same filePath, however the
\* clicks on Process File, Retry and Process All interleave.
C3_OneRunPerPath ==
    \A i, j \in 1..Len(runs) :
        i # j => runs[i].call.filePath # runs[j].call.filePath

\* the runs whose getAccessToken waits for its own acquireTokenSilent
RefreshesInFlight == {k \in 1..Len(runs) : runs[k].pc = "refresh"}

\* C4: calls of getAccessToken made while the cached token is expired share
\* one silent refresh: at most one refresh is in flight at any time.
C4_OneRefreshInFlight == Cardinality(RefreshesInFlight) <= 1

(***************************************************************************)
(* The status of an entry, as the queue shows it.                          *)
(***************************************************************************)
Uploading(e) == e.isProcessing
Completed(e) == e.isProcessed /\ ~e.isProcessing /\ e.error = NoError
Failed(e) == ~e.isProcessing /\ ~e.isProcessed /\ e.error # NoError

\* the last step ended a run whose deleteFile answered false or was rejected
DeleteFailed ==
    /\ lastOp.op = "processed"
    /\ lastOp.outcome \in {"false", "throws"}

\* C5: when the deletion of the source file fails after the upload and the
\* association succeeded, the entry, if it is still in the queue, ends
\* Completed: processed, not processing, without an error.
C5_DeleteFailureKeepsCompleted ==
    (DeleteFailed /\ Live(detectedFiles, lastOp.ts))
        => Completed(Entry(detectedFiles, lastOp.ts))

\* the upload of the run returned an item and its association request, sent
\* when tags are selected, succeeded
Committed(r) ==
    /\ r.upload # NoResult
    /\ IF r.tags = <<>> THEN r.assoc = "skipped" ELSE r.assoc = "ok"

\* C6: a run deletes the source file only after its upload succeeded and
\* its association request succeeded or was skipped for want of tags; the
\* step on which a run fails deletes nothing.
C6_DeleteAfterUploadAndAssociation ==
    /\ [](\A k \in 1..Len(runs) : runs[k].pc = "delete" => Committed(runs[k]))
    /\ [][lastOp'.op = "failed" => disk' = disk]_vars
    /\ [][(disk' # disk /\ lastOp'.op # "cancelDone")
            => (lastOp'.op = "processed" /\ Committed(lastOp'.run))]_vars

\* a run with tags has deleted its source file after the association
C6_Witness ==
    /\ lastOp.op = "processed"
    /\ lastOp.outcome = "true"
    /\ lastOp.run.assoc = "ok"
    /\ lastOp.run.call.filePath \notin disk

\* the last step was a click on Process File or Retry that sent an upload
Started ==
    /\ lastOp.op \in {"process", "retry"}
    /\ lastOp.started

\* the runs in flight for the entry created with timestamp ts
RunsOf(ts) == {k \in 1..Len(runs) : runs[k].ts = ts}

\* C7: processing an entry without tags sends exactly one upload, named by
\* the entry's displayName, sends no association request, then deletes the
\* source file, and the entry, if it is still in the queue, ends Completed.
C7_TagsOptional ==
    /\ Started =>
          /\ Cardinality(RunsOf(lastOp.ts)) = 1
          /\ runs[Len(runs)].call.uploadName =
                Entry(detectedFiles, lastOp.ts).displayName
    /\ \A k \in 1..Len(runs) :
          runs[k].tags = <<>> => runs[k].assoc \in {"none", "skipped"}
    /\ (lastOp.op = "processed" /\ lastOp.run.tags = <<>>) =>
          /\ lastOp.run.assoc = "skipped"
          /\ lastOp.outcome = "true" => lastOp.run.call.filePath \notin disk
          /\ Live(detectedFiles, lastOp.ts) =>
                Completed(Entry(detectedFiles, lastOp.ts))

\* C8: when the upload or the association of a run fails, the entry, if it
\* is still in the queue, ends Failed with the failure as its error (for an
\* upload failure, the status of the response); and every run, a retry
\* included, has been given a token by getAccessToken before it sends an
\* upload request.
C8_RemoteFailuresSurface ==
    /\ (lastOp.op = "failed" /\ Live(detectedFiles, lastOp.ts)) =>
          /\ Failed(Entry(detectedFiles, lastOp.ts))
          /\ Entry(detectedFiles, lastOp.ts).error = lastOp.error
    /\ \A k \in 1..Len(runs) :
          runs[k].pc \in {"upload", "assoc", "delete"}
              => runs[k].accessToken # "none"

\* what the user assigned to an entry
Assignment(e) == <<e.selectedFolder, e.selectedTags, e.displayName>>

\* the step keeps every entry of the queue, with its assignment
SameAssignments ==
    /\ Len(detectedFiles') = Len(detectedFiles)
    /\ \A j \in Indexes(detectedFiles) :
          Assignment(detectedFiles'[j]) = Assignment(detectedFiles[j])

\* the steps by which the user has an entry processed again: Retry (or
\* Process File) on the entry, and the turns of a Process All
RetryOps == {"retry", "processAll", "processAllNext"}

\* the steps of a run, from the command that starts it to its failure
RunOps ==
    {"process", "getAccessToken", "refreshed", "drive", "uploaded",
     "associated", "failed"} \cup RetryOps

\* C9: no step of a run that fails, from the command that triggers it to the
\* transition to Failed, changes the folder, the tags or the displayName of
\* any entry of the queue.
C9_FailureKeepsAssignment ==
    [][lastOp'.op \in RunOps => SameAssignments]_vars

\* an entry to which the user gave a tag has failed at its association
C9_Witness ==
    /\ lastOp.op = "failed"
    /\ lastOp.error = AssociationFailed
    /\ Live(detectedFiles, lastOp.ts)
    /\ Failed(Entry(detectedFiles, lastOp.ts))
    /\ Entry(detectedFiles, lastOp.ts).selectedTags # <<>>

\* the step takes a Failed entry to Uploading only as the retry of it
OnlyRetryResumes ==
    \A j \in Indexes(detectedFiles), i \in Indexes(detectedFiles') :
        ( /\ detectedFiles'[i].timestamp = detectedFiles[j].timestamp
          /\ Failed(detectedFiles[j])
          /\ Uploading(detectedFiles'[i]) )
        => (lastOp'.op \in RetryOps /\ lastOp'.ts = detectedFiles[j].timestamp)

\* a Retry keeps the entries of the queue in place; with a signed-in user it
\* clears the error of its entry and sends the upload of a new run, and
\* without one it leaves the entry Failed for want of authentication
RetryReusesEntry ==
    lastOp'.op = "retry" =>
        /\ Len(detectedFiles') = Len(detectedFiles)
        /\ \A j \in Indexes(detectedFiles) :
              /\ detectedFiles'[j].timestamp = detectedFiles[j].timestamp
              /\ detectedFiles'[j].filePath = detectedFiles[j].filePath
        /\ IF lastOp'.started
           THEN /\ Entry(detectedFiles', lastOp'.ts).error = NoError
                /\ Uploading(Entry(detectedFiles', lastOp'.ts))
                /\ Len(runs') = Len(runs) + 1
                /\ runs'[Len(runs')].ts = lastOp'.ts
                /\ runs'[Len(runs')].pc = "ipc"
           ELSE /\ Entry(detectedFiles', lastOp'.ts).error = NotAuthenticated
                /\ runs' = runs

\* only a command of the user starts a run
OnlyCommandsStartRuns ==
    Len(runs') > Len(runs) => lastOp'.op \in {"process"} \cup RetryOps

\* the upload requests of one run: one session, at most one PUT to it and
\* at most one PUT to .../content
OneSessionOneFallback(requests) ==
    /\ Len(requests) <= 3
    /\ \A i, j \in 1..Len(requests) : i # j => requests[i] # requests[j]
    /\ \A i \in 1..Len(requests) :
          requests[i] \in {"createUploadSession", "putSession", "putContent"}

\* C10: a Failed entry returns to Uploading only by the user's retry, which
\* keeps the entry (no entry is created), clears its error and starts again
\* at the upload; no run starts without a command of the user, and a run
\* sends no upload request beyond one session attempt and one fallback PUT.
C10_RetryPolicy ==
    /\ [][OnlyRetryResumes /\ RetryReusesEntry /\ OnlyCommandsStartRuns]_vars
    /\ [](lastOp.op \in {"uploaded", "failed"}
            => OneSessionOneFallback(lastOp.requests))

\* a Failed entry was retried: it is Uploading again and its error is cleared
C10_Witness ==
    /\ lastOp.op = "retry"
    /\ lastOp.started
    /\ Uploading(Entry(detectedFiles, lastOp.ts))
    /\ Entry(detectedFiles, lastOp.ts).error = NoError

(***************************************************************************)
(* processAll().                                                           *)
(***************************************************************************)
\* an entry that is AwaitingAssignment or Failed
Ready(e) == ~e.isProcessed /\ ~e.isProcessing

ReadyTimestamps(q) == {q[j].timestamp : j \in {i \in Indexes(q) : Ready(q[i])}}

\* the runs in flight that the loop with id b started
RunsOfBatch(b) == {k \in 1..Len(runs) : runs[k].batch = b}

\* the entries a loop goes through, by timestamp
TodoTimestamps(batch) ==
    {batch.todo[i].file.timestamp : i \in 1..Len(batch.todo)}

\* a loop has one attempt in flight, for the file of its current turn, or
\* waits out the delay before its next file
OneAttemptAtATime ==
    \A n \in 1..Len(batches) :
        LET batch == batches[n]
        IN  /\ batch.i \in 1..Len(batch.todo)
            /\ Cardinality(RunsOfBatch(batch.id)) =
                  IF batch.state = "run" THEN 1 ELSE 0
            /\ \A k \in RunsOfBatch(batch.id) :
                  runs[k].ts = batch.todo[batch.i].file.timestamp
            /\ batch.state = "delay" => batch.i < Len(batch.todo)

\* the click on Process All lists every ready entry once and starts the
\* attempt for the first
ProcessAllCoversReady ==
    lastOp'.op = "processAll" =>
        /\ Len(batches') = Len(batches) + 1
        /\ LET batch == batches'[Len(batches')]
           IN  /\ batch.i = 1
               /\ TodoTimestamps(batch) = ReadyTimestamps(detectedFiles)
               /\ Len(batch.todo) = Cardinality(ReadyTimestamps(detectedFiles))
               /\ Len(runs') = Len(runs) + 1
               /\ runs'[Len(runs')].batch = batch.id
               /\ runs'[Len(runs')].ts = batch.todo[1].file.timestamp

\* a loop moves on by one file at a time, after its delay, by starting the
\* attempt for that file
TurnsInOrder ==
    \A n \in 1..Len(batches), m \in 1..Len(batches') :
        batches'[m].id = batches[n].id =>
            /\ batches'[m].todo = batches[n].todo
            /\ batches'[m].i \in {batches[n].i, batches[n].i + 1}
            /\ batches'[m].i = batches[n].i + 1 =>
                  /\ lastOp'.op = "processAllNext"
                  /\ batches[n].state = "delay"
                  /\ Len(runs') = Len(runs) + 1
                  /\ runs'[Len(runs')].batch = batches[n].id
                  /\ runs'[Len(runs')].ts =
                        batches[n].todo[batches[n].i + 1].file.timestamp

\* a loop is over only when the attempt for its last file has ended
BatchEndsAfterLast ==
    \A n \in 1..Len(batches) :
        (\A m \in 1..Len(batches') : batches'[m].id # batches[n].id) =>
            /\ batches[n].i = Len(batches[n].todo)
            /\ lastOp'.op \in {"failed", "processed"}
            /\ lastOp'.run.batch = batches[n].id

\* after a failed attempt the loop goes on to the delay before its next file
FailureGoesOn ==
    (lastOp'.op = "failed" /\ lastOp'.run.batch # 0) =>
        \A n \in 1..Len(batches) :
            (batches[n].id = lastOp'.run.batch
               /\ batches[n].i < Len(batches[n].todo)) =>
                \E m \in 1..Len(batches') :
                    /\ batches'[m].id = batches[n].id
                    /\ batches'[m].state = "delay"

\* C11: Process All attempts every entry that is AwaitingAssignment or Failed
\* at the click exactly once, one attempt after the other (the next starts
\* only after the previous has ended and the delay has passed), and goes on
\* to the next entry after a failed attempt.
C11_ProcessAllSequential ==
    /\ []OneAttemptAtATime
    /\ [][ProcessAllCoversReady /\ TurnsInOrder /\ BatchEndsAfterLast
            /\ FailureGoesOn]_vars

\* Process All has started the attempt for its second file after the attempt
\* for its first file failed
C11_Witness ==
    /\ lastOp.op = "processAllNext"
    /\ \E n \in 1..Len(batches) :
          /\ batches[n].i = 2
          /\ Live(detectedFiles, batches[n].todo[1].file.timestamp)
          /\ Failed(Entry(detectedFiles, batches[n].todo[1].file.timestamp))

(***************************************************************************)
(* Cancel.                                                                 *)
(***************************************************************************)
\* the reply to the deleteFile of a confirmed cancel has been handled
CancelHandled == lastOp'.op = "cancelDone"

\* C12: a confirmed cancel is issued only for an entry that is not Completed;
\* once it has been handled the entry is absent from the queue and, where the
\* unlink worked, its source file is absent from the drop folder.
C12_CancelDestroysEntry ==
    /\ [][lastOp'.op = "cancel"
            => ~Entry(detectedFiles, lastOp'.ts).isProcessed]_vars
    /\ [][CancelHandled =>
            /\ ~Live(detectedFiles', lastOp'.ts)
            /\ lastOp'.works => lastOp'.filePath \notin disk']_vars

(***************************************************************************)
(* Credential guard.                                                       *)
(***************************************************************************)
\* the step takes an entry that was not Uploading to Uploading
BecomesUploading ==
    \E j \in Indexes(detectedFiles), i \in Indexes(detectedFiles') :
        /\ detectedFiles'[i].timestamp = detectedFiles[j].timestamp
        /\ ~Uploading(detectedFiles[j])
        /\ Uploading(detectedFiles'[i])

\* the step is an invocation of handleProcessSingleFile, by a click on
\* Process File or Retry or by a turn of Process All
ProcessInvoked == lastOp'.op \in {"process"} \cup RetryOps

\* C13: an entry becomes Uploading only while a user is signed in and the
\* credential manager holds a Credential; a process invoked while no user is
\* signed in starts no run, so no upload request is sent for it; and a run
\* sends its upload requests only with a token of the credential manager.
C13_CredentialGuard ==
    /\ [][BecomesUploading
            => (currentUser # NoUser /\ authUser # NoAuth)]_vars
    /\ [][(ProcessInvoked /\ currentUser = NoUser) => runs' = runs]_vars
    /\ [](\A k \in 1..Len(runs) :
            runs[k].pc = "upload" => runs[k].accessToken = "bearer")

(***************************************************************************)
(* lastError.                                                              *)
(***************************************************************************)
\* C14: an error is present only on a Failed entry: no entry of the queue is
\* processed and carries an error, and no entry that is being processed
\* carries an error.
C14_ErrorOnlyWhenFailed ==
    \A j \in Indexes(detectedFiles) :
        /\ detectedFiles[j].isProcessed => detectedFiles[j].error = NoError
        /\ detectedFiles[j].isProcessing => detectedFiles[j].error = NoError

(***************************************************************************)
(* getAccessToken().                                                       *)
(***************************************************************************)
\* the step is the call of getAccessToken or the answer to its refresh
GetAccessTokenStep == lastOp'.op \in {"getAccessToken", "refreshed"}

\* getAccessToken returns a token to the uploadFile of a run on this step
TokenReturned ==
    /\ GetAccessTokenStep
    /\ \E k \in 1..Len(runs) :
          /\ runs[k].ts = lastOp'.ts
          /\ runs[k].accessToken = "none"
          /\ runs'[k].accessToken = "bearer"

\* the call of getAccessToken starts a silent refresh on this step
RefreshStarted ==
    /\ lastOp'.op = "getAccessToken"
    /\ \E k \in 1..Len(runs) :
          /\ runs[k].ts = lastOp'.ts
          /\ runs[k].pc = "ipc"
          /\ runs'[k].pc = "refresh"

\* the silent refresh of a run fails on this step
RefreshFailed ==
    /\ lastOp'.op = "failed"
    /\ lastOp'.run.pc = "refresh"

ReauthRequired == UploadError("Token expired and refresh failed")

\* C15: with a cached token that has not expired getAccessToken returns it
\* at once and leaves the Credential as it is; with an expired one it starts a
\* silent refresh and returns nothing before the refresh has answered; a
\* refresh that succeeds returns the refreshed token, one that fails raises
\* the re-authentication error and leaves the Credential as it is; no step of
\* getAccessToken signs a user in, and a token is never expired when it is
\* returned.
C15_GetAccessToken ==
    /\ [][(lastOp'.op = "getAccessToken" /\ authUser # NoAuth) =>
            IF authUser.valid
            THEN authUser' = authUser /\ ~RefreshStarted
            ELSE RefreshStarted /\ ~TokenReturned]_vars
    /\ [][TokenReturned => (authUser' # NoAuth /\ authUser'.valid)]_vars
    /\ [][lastOp'.op = "refreshed" =>
            authUser' = [authUser EXCEPT !.valid = TRUE]]_vars
    /\ [][RefreshFailed =>
            (lastOp'.error = ReauthRequired /\ authUser' = authUser)]_vars
    /\ [][(GetAccessTokenStep \/ lastOp'.op = "failed") =>
            /\ currentUser' = currentUser
            /\ (authUser = NoAuth) = (authUser' = NoAuth)
            /\ authUser # NoAuth => authUser'.id = authUser.id]_vars

\* a run called getAccessToken with an expired token, and the silent refresh
\* returned a token that is valid
C15_Witness ==
    /\ lastOp.op = "refreshed"
    /\ authUser.valid
    /\ \E k \in 1..Len(runs) :
          /\ runs[k].ts = lastOp.ts
          /\ runs[k].accessToken = "bearer"
          /\ runs[k].pc = "upload"

(***************************************************************************)
(* uploadFile().                                                           *)
(***************************************************************************)
\* the last step ended the uploadFile of a run: it returned the uploaded
\* item, or it threw
UploadFileFailed ==
    /\ lastOp.op = "failed"
    /\ lastOp.run.pc \in {"ipc", "refresh", "drives", "upload"}

UploadFileEnded == lastOp.op = "uploaded" \/ UploadFileFailed

\* the PUT to .../content was sent
FallbackAttempted ==
    \E i \in 1..Len(lastOp.requests) : lastOp.requests[i] = "putContent"

\* the creation of the session or the PUT to the session failed
SessionFailed == lastOp.session = "failed"

BothAttemptsFailed == lastOp.session = "failed" /\ lastOp.fallback = "failed"

\* every request of the upload names the drive, the folder and the file of
\* the call
SameTarget ==
    \A i \in 1..Len(lastOp.urls) :
        /\ lastOp.urls[i].drive = currentDriveId
        /\ lastOp.urls[i].path = TargetPath(lastOp.run.call.folderPath)
        /\ lastOp.urls[i].name = lastOp.run.call.uploadName

\* the fallback is attempted exactly when the session attempt failed, for
\* the same target
FallbackRule ==
    /\ FallbackAttempted <=> SessionFailed
    /\ SameTarget

\* C16: uploadFile sends the direct PUT if and only if the creation of the
\* session or the upload to it failed, to the same folder and file name; it
\* fails if and only if both attempts failed, and its error then carries the
\* HTTP status and the body of the response.
C16_UploadFileFallback ==
    UploadFileEnded =>
        /\ FallbackRule
        /\ UploadFileFailed <=> BothAttemptsFailed
        /\ UploadFileFailed =>
              /\ lastOp.response \in FailStatuses
              /\ lastOp.error.status = lastOp.response
              /\ lastOp.error.detail = ErrorBody(lastOp.response)

\* C16, amended: uploadFile sends the direct PUT if and only if the creation
\* of the session or the upload to it failed, to the same folder and file
\* name.  Once it has sent its first request it fails if and only if both
\* attempts failed; its error then carries the HTTP status and the body of the
\* response to the direct PUT or, when that request got no response, reports
\* a network error.  It also fails, before any request, when getAccessToken
\* or getDefaultDrive fails or the file cannot be read.
C16_UploadFileFallbackAmended ==
    UploadFileEnded =>
        /\ FallbackRule
        /\ lastOp.requests # <<>> => (UploadFileFailed <=> BothAttemptsFailed)
        /\ BothAttemptsFailed =>
              IF lastOp.response = NetworkError
              THEN lastOp.error = NetworkFailure
              ELSE /\ lastOp.response \in FailStatuses
                   /\ lastOp.error.kind = "uploadFailed"
                   /\ lastOp.error.status = lastOp.response
                   /\ lastOp.error.detail = ErrorBody(lastOp.response)
        /\ lastOp.requests = <<>> =>
              /\ UploadFileFailed
              /\ lastOp.run.pc \in {"ipc", "refresh", "drives"}

\* the session was created, the PUT to it failed and the direct PUT was
\* answered 401: uploadFile failed with that status
C16_Witness ==
    /\ lastOp.op = "failed"
    /\ lastOp.requests = <<"createUploadSession", "putSession", "putContent">>
    /\ BothAttemptsFailed
    /\ lastOp.error = UploadFailed(401)

(***************************************************************************)
(* Sign-out.                                                               *)
(***************************************************************************)
\* C17: once the sign-out command has been handled the credential manager
\* holds no Credential, and as long as no user has signed in again no call of
\* getAccessToken returns a token or starts a refresh.
C17_SignOutDestroysCredential ==
    /\ [](lastOp.op = "signOut" => authUser = NoAuth)
    /\ [][(currentUser = NoUser /\ GetAccessTokenStep)
            => (~TokenReturned /\ ~RefreshStarted)]_vars

(***************************************************************************)
(* displayName.                                                            *)
(***************************************************************************)
\* the extension of a file name: its suffix from its last '.', nothing for a
\* name without '.'
Extension(fileName) ==
    IF \E j \in 1..Len(fileName) : fileName[j] = "."
    THEN LET dot == CHOOSE j \in 1..Len(fileName) :
                       /\ fileName[j] = "."
                       /\ \A k \in (j + 1)..Len(fileName) : fileName[k] # "."
         IN  SubSeq(fileName, dot, Len(fileName))
    ELSE <<>>

EndsWith(s, suffix) ==
    /\ Len(suffix) <= Len(s)
    /\ SubSeq(s, Len(s) - Len(suffix) + 1, Len(s)) = suffix

\* the last step was a rename of an entry to a name without '.'
RenamedWithoutDot ==
    /\ lastOp.op = "rename"
    /\ ~Includes(lastOp.input, ".")

\* C18: after a rename to a name that contains no '.', the entry's
\* displayName ends with the extension of its original fileName.
C18_ExtensionPreservation ==
    RenamedWithoutDot =>
        EndsWith(Entry(detectedFiles, lastOp.ts).displayName,
                 Extension(Entry(detectedFiles, lastOp.ts).fileName))

\* the file a.b.p was renamed to n and is now displayed as n.p
C18_Witness ==
    /\ RenamedWithoutDot
    /\ lastOp.input = <<"n">>
    /\ Entry(detectedFiles, lastOp.ts).fileName = <<"a", ".", "b", ".", "p">>
    /\ Entry(detectedFiles, lastOp.ts).displayName = <<"n", ".", "p">>

\* C19: whatever names the user types, with or without a '.', the
\* displayName of every entry, and so the name its upload would be given,
\* ends with the extension of the entry's original fileName.
C19_DisplayNameKeepsExtension ==
    \A j \in Indexes(detectedFiles) :
        /\ EndsWith(detectedFiles[j].displayName,
                    Extension(detectedFiles[j].fileName))
        /\ EndsWith(UploadCall(detectedFiles[j]).uploadName,
                    Extension(detectedFiles[j].fileName))

(***************************************************************************)
(* Tags.                                                                   *)
(***************************************************************************)
\* the tag ids of a list of selected tags
TagSet(tags) == {tags[i] : i \in 1..Len(tags)}

NoDuplicateTags(tags) ==
    \A i, j \in 1..Len(tags) : i # j => tags[i] # tags[j]

\* toggling a tag twice gives back the set of tags there was
TwiceRestores(tags) ==
    \A tagId \in PickerTagIds :
        TagSet(ToggledTags(ToggledTags(tags, tagId), tagId)) = TagSet(tags)

\* a toggle adds the tag to the set of its entry or takes it out, and leaves
\* the tags of the other entries as they are
ToggleChangesOneEntry ==
    lastOp'.op = "toggleTag" =>
        /\ Len(detectedFiles') = Len(detectedFiles)
        /\ \A j \in Indexes(detectedFiles) :
              IF detectedFiles[j].timestamp = lastOp'.ts
              THEN TagSet(detectedFiles'[j].selectedTags) =
                      IF lastOp'.input \in TagSet(detectedFiles[j].selectedTags)
                      THEN TagSet(detectedFiles[j].selectedTags)
                              \ {lastOp'.input}
                      ELSE TagSet(detectedFiles[j].selectedTags)
                              \cup {lastOp'.input}
              ELSE detectedFiles'[j].selectedTags =
                      detectedFiles[j].selectedTags

\* C20: the selectedTags of an entry never hold a tag id twice; toggling a
\* tag twice restores the set of tags the entry had; and a toggle on one entry
\* leaves the tags of every other entry unchanged.
C20_TagsAreASet ==
    /\ [](\A j \in Indexes(detectedFiles) :
            /\ NoDuplicateTags(detectedFiles[j].selectedTags)
            /\ TwiceRestores(detectedFiles[j].selectedTags))
    /\ [][ToggleChangesOneEntry]_vars

\* tag 7 was toggled on and off again on the first entry, which keeps tag 8,
\* while the second entry keeps its tag 7
C20_Witness ==
    /\ lastOp.op = "toggleTag"
    /\ lastOp.input = 7
    /\ lastOp.ts = detectedFiles[1].timestamp
    /\ detectedFiles[1].selectedTags = <<8>>
    /\ detectedFiles[2].selectedTags = <<7>>

(***************************************************************************)
(* Entry lifecycle.                                                        *)
(***************************************************************************)
\* the step put a new entry in the queue
EntryCreated == Len(detectedFiles') > Len(detectedFiles)

\* C21: an entry is created only by a report of the watcher (FileReady) or
\* by the scan of the drop folder; so a path whose entry was removed gets no
\* entry again unless the watcher or a scan reports it anew.
C21_EntryLifecycle ==
    [][EntryCreated =>
          /\ lastOp'.op = "detect"
          /\ lastOp'.source \in {"watcher", "scan"}]_vars

(***************************************************************************)
(* Hidden files.                                                           *)
(***************************************************************************)
\* the name begins with a dot
BeginsWithDot(fileName) == Len(fileName) > 0 /\ fileName[1] = "."

\* C22: no entry of the queue is for a file whose name begins with '.',
\* whether the watcher reported the file or the scan of the drop folder
\* found it.
C22_HiddenFilesIgnored ==
    \A j \in Indexes(detectedFiles) :
        ~BeginsWithDot(detectedFiles[j].fileName)

(***************************************************************************)
(* Watcher re-entrancy.                                                    *)
(***************************************************************************)
\* the open watchers are the one the FileWatcher of the main process holds
HeldWatchers ==
    IF fileWatcher # NoWatcher /\ fileWatcher.watching
    THEN <<[notify |-> fileWatcher.notify]>>
    ELSE <<>>

\* a start or restart closes every watcher that was open and leaves the
\* new one, if it could be opened, as the only one; a stop leaves none
WatcherCommand ==
    /\ lastOp'.op \in {"startFileWatcher", "restartFileWatcher"} =>
          /\ lastOp'.closed = Len(watchers)
          /\ Len(watchers') = IF lastOp'.ok THEN 1 ELSE 0
    /\ lastOp'.op = "stopFileWatcher" =>
          /\ lastOp'.closed = Len(watchers)
          /\ watchers' = <<>>
          /\ fileWatcher' = NoWatcher

\* C23: after any sequence of start, stop and restart commands at most one
\* watch is active, and it is the one the main process holds; a start while
\* a watch is active closes that watch, and after a stop no watch is active.
C23_WatcherReentrancy ==
    /\ [](Len(watchers) <= 1 /\ watchers = HeldWatchers)
    /\ [][WatcherCommand]_vars

\* a start was issued while a watch was active: the prior watch was closed
\* and the new one is the only one
C23_Witness ==
    /\ lastOp.op = "startFileWatcher"
    /\ lastOp.closed = 1
    /\ lastOp.ok
    /\ Len(watchers) = 1

(***************************************************************************)
(* File history.                                                           *)
(***************************************************************************)
\* the step took the entry of this timestamp to Completed
ReachesCompleted(ts) ==
    /\ Live(detectedFiles', ts)
    /\ Completed(Entry(detectedFiles', ts))
    /\ ~(Live(detectedFiles, ts) /\ Completed(Entry(detectedFiles, ts)))

\* the step appended one record for this path to the file history
HistoryAppended(filePath) ==
    /\ Len(db.file_history') = Len(db.file_history) + 1
    /\ db.file_history'[Len(db.file_history')].filePath = filePath
    /\ \A j \in 1..Len(db.file_history) :
          db.file_history'[j] = db.file_history[j]

\* C24: whenever an entry reaches Completed, a record for its upload is
\* appended to the file history of the store.
C24_HistoryOnCompleted ==
    [][\A ts \in 1..MaxClock :
          ReachesCompleted(ts) =>
              HistoryAppended(Entry(detectedFiles', ts).filePath)]_vars

(***************************************************************************)
(* Restart recovery.                                                       *)
(***************************************************************************)
\* the status a snapshot row of the entry would carry
StatusOf(e) ==
    IF e.isProcessing THEN "processing"
    ELSE IF e.isProcessed THEN "completed"
    ELSE IF e.error # NoError THEN "error"
    ELSE "pending"

\* the row is the snapshot of the entry
Mirrors(row, e) ==
    /\ row.filePath = e.filePath
    /\ row.status = StatusOf(e)
    /\ row.folderPath = OrNull(e.selectedFolder)
    /\ row.tags = e.selectedTags

\* C25: the processing-queue snapshot of the store mirrors the queue in
\* memory: every live entry has a row with its path, status, target folder
\* and tag ids, from which a restart could restore it.
C25_SnapshotMirrorsQueue ==
    \A j \in Indexes(detectedFiles) :
        \E i \in 1..Len(db.processing_queue) :
            Mirrors(db.processing_queue[i], detectedFiles[j])

(***************************************************************************)
(* Key/value cache.                                                        *)
(***************************************************************************)
\* cacheData on an initialized store writes the row of its key: the value
\* and the time it expires at
CacheWritten ==
    (lastOp'.op = "cacheData" /\ db.init = "ok") =>
        /\ lastOp'.done
        /\ db.cache'[lastOp'.key] # NoRow
        /\ db.cache'[lastOp'.key].stored = lastOp'.input
        /\ db.cache'[lastOp'.key].expiresAt =
              dateNow + lastOp'.ttl * 60000

\* getCachedData on a key with a row: not past expiresAt, it returns the
\* value the row was written for and leaves the row; past expiresAt, it
\* returns absent and the row is gone
CacheRead ==
    (lastOp'.op = "getCachedData" /\ db.cache[lastOp'.key] # NoRow) =>
        IF dateNow <= db.cache[lastOp'.key].expiresAt
        THEN /\ ~lastOp'.absent
             /\ lastOp'.value = db.cache[lastOp'.key].stored
             /\ db.cache' = db.cache
        ELSE /\ lastOp'.absent
             /\ db.cache'[lastOp'.key] = NoRow

\* without a row the read returns absent
CacheMiss ==
    (lastOp'.op = "getCachedData" /\ db.cache[lastOp'.key] = NoRow) =>
        lastOp'.absent /\ db.cache' = db.cache

\* between a cacheData and the reads of its key nothing else changes the
\* row, but the removal of a row that has expired
CacheRowKept ==
    \A key \in CacheKeys :
        db.cache'[key] # db.cache[key] =>
            \/ lastOp'.op = "cacheData" /\ lastOp'.key = key
            \/ /\ db.cache[key] # NoRow
               /\ db.cache'[key] = NoRow
               /\ db.cache[key].expiresAt < dateNow

\* C26: getCachedData(key) returns the value most recently stored by
\* cacheData(key, value, ttl) when it is read before its expiresAt; a read
\* past expiresAt returns absent and deletes the row; so no sequence of calls
\* returns an expired value.
C26_CacheTtl ==
    [][CacheWritten /\ CacheRead /\ CacheMiss /\ CacheRowKept]_vars

\* a read found the row of its key expired: it returned absent and the row
\* is gone
C26_Witness ==
    /\ lastOp.op = "getCachedData"
    /\ lastOp.evicted
    /\ lastOp.absent
    /\ db.cache[lastOp.key] = NoRow

(***************************************************************************)
(* Store degradation.                                                      *)
(***************************************************************************)
StoreReads == {"getProcessingQueue", "getFileHistory", "getCachedData"}

StoreWrites ==
    {"addToProcessingQueue", "updateProcessingStatus",
     "removeFromProcessingQueue", "addToFileHistory", "cacheData"}

\* the answer of a store in no-op mode: a read is empty or absent, a write
\* reports success and changes nothing
NoOpAnswer ==
    /\ lastOp'.op \in {"getProcessingQueue", "getFileHistory"} =>
          lastOp'.rows = <<>>
    /\ lastOp'.op = "getCachedData" => lastOp'.absent
    /\ lastOp'.op \in {"addToProcessingQueue", "addToFileHistory"} =>
          lastOp'.id # 0
    /\ lastOp'.op \in {"updateProcessingStatus", "removeFromProcessingQueue",
                       "cacheData"} => lastOp'.done
    /\ db' = db

\* C27: after an initialization that failed, at the opening of the database
\* or at the creation of its tables, every read of the store returns empty
\* or absent and every write is accepted and reports success.
C27_StoreDegradation ==
    [][(db.init \in {"openFails", "tablesFail"}
            /\ lastOp'.op \in StoreReads \cup StoreWrites) => NoOpAnswer]_vars

(***************************************************************************)
(* createAssociations.                                                     *)
(***************************************************************************)
\* a run takes the tags its entry has when it is started
RunTakesTags ==
    (lastOp'.op = "process" /\ lastOp'.started) =>
        runs'[Len(runs')].tags =
            Entry(detectedFiles, lastOp'.ts).selectedTags

\* the request holds one association for each tag of the run, and each
\* refers to the file the upload returned
OnePerTag(request, tags, oneDriveResult) ==
    /\ Len(request.associations) = Cardinality(TagSet(tags))
    /\ \A tagId \in TagSet(tags) :
          Cardinality({i \in 1..Len(request.associations) :
                          request.associations[i].tag_id = tagId}) = 1
    /\ \A i \in 1..Len(request.associations) :
          /\ request.associations[i].tag_id \in TagSet(tags)
          /\ request.associations[i].file_id = oneDriveResult.id

\* the association request is sent when the upload of the run has
\* succeeded, once, and only for a run with tags
RequestAfterUpload ==
    lastOp'.op = "uploaded" =>
        /\ lastOp'.run.assoc = "none"
        /\ \E k \in 1..Len(runs') :
              /\ runs'[k].ts = lastOp'.ts
              /\ runs'[k].upload = lastOp'.oneDriveResult
              /\ runs'[k].assoc # "none"
        /\ IF lastOp'.run.tags # <<>>
           THEN /\ Len(lastOp'.associationRequests) = 1
                /\ OnePerTag(lastOp'.associationRequests[1],
                             lastOp'.run.tags, lastOp'.oneDriveResult)
           ELSE lastOp'.associationRequests = <<>>

Elements(list) == {list[i] : i \in 1..Len(list)}

\* the result lists the categories that were fetched, each with exactly the
\* fetched tags of its id, each of them once
JoinedLocally(result, categories, tags) ==
    /\ Len(result) = Len(categories)
    /\ \A i \in 1..Len(result) :
          /\ result[i].id = categories[i].id
          /\ Elements(result[i].tags) =
                {tag \in Elements(tags) : tag.category_id = result[i].id}
          /\ Len(result[i].tags) = Cardinality(Elements(result[i].tags))

\* no tag is listed under two categories
AtMostOneCategory(result, tags) ==
    \A tag \in Elements(tags) :
        Cardinality({i \in 1..Len(result) :
                        tag \in Elements(result[i].tags)}) <= 1

\* C29: the categories and the tags are fetched by two calls and joined
\* locally: each returned category holds exactly the tags whose category_id
\* is its id, a tag appears under at most one category, and when either call
\* fails the result is the empty list.
C29_ListTagCategories ==
    lastOp.op = "getTagCategories" =>
        IF lastOp.categoriesResponse.ok /\ lastOp.tagsResponse.ok
        THEN /\ JoinedLocally(lastOp.result, lastOp.categoriesResponse.data,
                              lastOp.tagsResponse.data)
             /\ AtMostOneCategory(lastOp.result, lastOp.tagsResponse.data)
        ELSE lastOp.result = <<>>

\* two categories were fetched, and tag 7 of category 1 and tag 8 of no
\* category: tag 7 is under category 1, and category 2 has no tag
C29_Witness ==
    /\ lastOp.op = "getTagCategories"
    /\ Len(lastOp.result) = 2
    /\ lastOp.result[1].id = 1
    /\ lastOp.result[1].tags = <<[id |-> 7, category_id |-> 1]>>
    /\ lastOp.result[2].tags = <<>>
    /\ Len(lastOp.tagsResponse.data) = 2

(***************************************************************************)
(* resolveDrive                                                            *)
(***************************************************************************)
\* the last step listed the drives and got an answer
Resolved == "resolve" \in DOMAIN lastOp

PersonalDrives(drives) ==
    {j \in 1..Len(drives) : drives[j].driveType = "personal"}

OneDriveNamed(drives) ==
    {j \in 1..Len(drives) : drives[j].name = "OneDrive - Broadlink"}

\* the id of the first drive of the list whose position is in `positions`
FirstOf(drives, positions) ==
    drives[CHOOSE j \in positions : \A i \in positions : j <= i].id

FailedNoDrive ==
    /\ lastOp.op = "failed"
    /\ lastOp.error = UploadError("No OneDrive drives found")

\* the list of drives is empty exactly when the step fails for want of a
\* drive
FailsIffEmpty == Resolved => (FailedNoDrive <=> lastOp.resolve.drives = <<>>)

\* the id of later uploads changes only to the id a listing selected, and
\* a listing that selects a drive sets it
SelectedIsKept ==
    [][/\ currentDriveId' # currentDriveId =>
            /\ "resolve" \in DOMAIN lastOp'
            /\ currentDriveId' = lastOp'.resolve.selected
       /\ ("resolve" \in DOMAIN lastOp' /\ lastOp'.resolve.drives # <<>>) =>
            currentDriveId' = lastOp'.resolve.selected]_vars

\* an upload that finds an id resolved takes it, and every request of an
\* upload goes to the id its run holds
UploadsUseSelected ==
    /\ \A k \in 1..Len(runs) :
          runs[k].pc \in {"upload", "assoc", "delete"} =>
              runs[k].driveId # NoDrive
    /\ "urls" \in DOMAIN lastOp =>
          \A j \in 1..Len(lastOp.urls) :
              lastOp.urls[j].drive = lastOp.run.driveId
    /\ [][(lastOp'.op = "getAccessToken" /\ currentDriveId # NoDrive) =>
              \A k \in 1..Len(runs') :
                  runs'[k].ts = lastOp'.ts =>
                      runs'[k].driveId = currentDriveId]_vars

\* C30 as stated: the result is a personal drive if one exists, otherwise
\* the first drive of the list; the step fails with the no-drive error if
\* and only if the list is empty; the selected id is the id of later uploads
C30_ResolveDrive ==
    /\ [](Resolved =>
            LET drives == lastOp.resolve.drives
            IN  /\ PersonalDrives(drives) # {} =>
                      lastOp.resolve.selected \in
                          {drives[j].id : j \in PersonalDrives(drives)}
                /\ (PersonalDrives(drives) = {} /\ drives # <<>>) =>
                      lastOp.resolve.selected = drives[1].id)
    /\ []FailsIffEmpty
    /\ SelectedIsKept
    /\ UploadsUseSelected

\* C30 amended: the result is the first personal drive if one exists,
\* otherwise the first drive with OneDrive in its name if one exists,
\* otherwise the first drive of the list; the step fails with the no-drive
\* error if and only if the list is empty; the selected id is the id of
\* later uploads
C30_ResolveDriveByName ==
    /\ [](Resolved =>
            LET drives == lastOp.resolve.drives
                selected == lastOp.resolve.selected
            IN  /\ PersonalDrives(drives) # {} =>
                      selected = FirstOf(drives, PersonalDrives(drives))
                /\ (PersonalDrives(drives) = {}
                        /\ OneDriveNamed(drives) # {}) =>
                      selected = FirstOf(drives, OneDriveNamed(drives))
                /\ (PersonalDrives(drives) = {}
                        /\ OneDriveNamed(drives) = {} /\ drives # <<>>) =>
                      selected = drives[1].id)
    /\ []FailsIffEmpty
    /\ SelectedIsKept
    /\ UploadsUseSelected

\* a listing without a personal drive selected its second drive, for the
\* name, and a request of the upload went to it
C30_Witness ==
    /\ "urls" \in DOMAIN lastOp
    /\ lastOp.urls # <<>>
    /\ lastOp.urls[1].drive = <<"drive", "d2">>
    /\ currentDriveId = <<"drive", "d2">>

(***************************************************************************)
(* findOrCreateFolder                                                      *)
(***************************************************************************)
\* the folders of the path that are not in the drive: the path and its
\* ancestors
MissingSegments(tree, pathParts) ==
    { SubSeq(pathParts, 1, n) : n \in 1..Len(pathParts) } \ tree

\* C31: the folder findFolderByPath returns is the folder at the requested
\* path; the folders it creates are the missing folders of the path and no
\* other, a parent before its child, and no folder of the drive is lost; it
\* returns no folder when a folder could not be created
C31_FindOrCreateFolder ==
    lastOp.op = "findFolderByPath" =>
        /\ lastOp.result.found => lastOp.result.id = lastOp.pathParts
        /\ { lastOp.created[i] : i \in 1..Len(lastOp.created) }
              \subseteq MissingSegments(lastOp.tree, lastOp.pathParts)
        /\ \A i, j \in 1..Len(lastOp.created) :
              i < j => Len(lastOp.created[i]) < Len(lastOp.created[j])
        /\ lastOp.tree \subseteq lastOp.after
        /\ lastOp.createFailed => ~lastOp.result.found

(***************************************************************************)
(* Path translation in uploadFile                                          *)
(***************************************************************************)
Translated == lastOp.op = "targetPath"

NoBackslash(text) == \A j \in 1..Len(text) : text[j] # "\\"

BeginsWith(text, prefix) ==
    /\ Len(text) >= Len(prefix)
    /\ \A j \in 1..Len(prefix) : text[j] = prefix[j]

AliasText == <<"OneDrive - Broadlink", "/">>

LocalRootText == <<"E:", "\\", "365", "\\">>

\* the given path with every separator written '/'
Normalised(text) ==
    [j \in 1..Len(text) |-> IF text[j] = "\\" THEN "/" ELSE text[j]]

RootGiven ==
    lastOp.folderPath \in {<<"undefined">>, <<>>, <<"root">>} =>
        lastOp.targetPath = <<"root">>

\* C32 as stated: the target path holds no backslash and begins neither with
\* 'OneDrive - Broadlink/' nor with 'E:\365\'; an absent, empty or 'root'
\* folder path gives the drive root
C32_PathTranslation ==
    Translated =>
        /\ NoBackslash(lastOp.targetPath)
        /\ ~BeginsWith(lastOp.targetPath, AliasText)
        /\ ~BeginsWith(lastOp.targetPath, LocalRootText)
        /\ RootGiven

\* C32 amended: the target path holds no backslash and does not begin with
\* 'E:\365\'; one leading alias is taken off, so the target path begins with
\* 'OneDrive - Broadlink/' only when the given path, its separators written
\* '/', holds the alias twice at its start or after 'E:/365/'; an absent,
\* empty or 'root' folder path gives the drive root
C32_PathTranslationOnce ==
    Translated =>
        /\ NoBackslash(lastOp.targetPath)
        /\ ~BeginsWith(lastOp.targetPath, LocalRootText)
        /\ BeginsWith(lastOp.targetPath, AliasText) =>
              LET given == Normalised(lastOp.folderPath)
              IN  \/ BeginsWith(given, AliasText \o AliasText)
                  \/ BeginsWith(given, <<"E:", "/", "365", "/">>
                                           \o AliasText \o AliasText)
        /\ RootGiven

\* a path with a backslash below the alias was translated to a path below the
\* drive root
C32_Witness ==
    /\ Translated
    /\ lastOp.folderPath = <<"OneDrive - Broadlink", "\\", "x">>
    /\ lastOp.targetPath = <<"x">>

(***************************************************************************)
(* Cancel removes exactly its entry                                        *)
(***************************************************************************)
\* the entries of a queue, each known by the time it was detected
Entries(q) == {q[j].timestamp : j \in 1..Len(q)}

\* C33: when the reply to the deleteFile of a cancel is handled, whatever
\* other cancels are pending and whatever was detected meanwhile, the queue
\* loses the entry the cancel was invoked on and no other entry.
C33_CancelRemovesExactlyItsEntry ==
    [][lastOp'.op = "cancelDone" =>
          Entries(detectedFiles') = Entries(detectedFiles) \ {lastOp'.ts}]_vars

(***************************************************************************)
(* Completed is terminal                                                   *)
(***************************************************************************)
\* the step starts a run, the sequence of upload, association and deletion,
\* for the entry created with timestamp ts
RunStartsFor(ts) ==
    /\ Len(runs') > Len(runs)
    /\ runs'[Len(runs')].ts = ts

\* C34: an entry that is Completed stays Completed for as long as it is in
\* the queue, and no run is started for it, whatever is clicked and whichever
\* run ends.
C34_CompletedIsTerminal ==
    [][\A j \in 1..Len(detectedFiles) :
          Completed(detectedFiles[j]) =>
              /\ ~RunStartsFor(detectedFiles[j].timestamp)
              /\ Live(detectedFiles', detectedFiles[j].timestamp) =>
                    Completed(Entry(detectedFiles',
                                    detectedFiles[j].timestamp))]_vars

(***************************************************************************)
(* The folder of an entry                                                  *)
(***************************************************************************)
\* the step changes the folder of the entry created with timestamp ts
FolderChanges(ts) ==
    /\ Live(detectedFiles, ts)
    /\ Live(detectedFiles', ts)
    /\ Entry(detectedFiles', ts).selectedFolder
          # Entry(detectedFiles, ts).selectedFolder

\* the user has assigned a folder to the entry: no root folder of the
\* preferences gives a folder the user types
AssignedByUser(ts) ==
    /\ Live(detectedFiles, ts)
    /\ Entry(detectedFiles, ts).selectedFolder \in {"Finance/2024", "Archive"}

\* C35: a folder the user assigned to an entry changes only when the user
\* assigns a folder to that entry or applies a folder to all entries; loading
\* the preferences again, with the same or another root folder, does not
\* overwrite it.
C35_FolderChangesByUserOnly ==
    [][\A ts \in Entries(detectedFiles) :
          (AssignedByUser(ts) /\ FolderChanges(ts)) =>
              \/ lastOp'.op = "assignFolder" /\ lastOp'.ts = ts
              \/ lastOp'.op = "applyFolderToAll"]_vars

(***************************************************************************)
(* Upload without a configured root folder                                 *)
(***************************************************************************)
\* the last step sent the upload requests of a run whose entry had the
\* folder it was given at its detection or at a reload of the preferences,
\* with no root folder configured
UploadedUnassigned ==
    /\ "urls" \in DOMAIN lastOp
    /\ lastOp.urls # <<>>
    /\ loadedPreferencesRef \in {"/", ""}
    /\ lastOp.run.call.folderPath \notin {"Finance/2024", "Archive"}

\* C36: with no root folder configured, the upload of an entry whose folder
\* the user did not change goes to the drive root, whatever the path of the
\* detected file.
C36_UnconfiguredRootUploadsToRoot ==
    UploadedUnassigned =>
        \A j \in 1..Len(lastOp.urls) : lastOp.urls[j].path = "root"

(***************************************************************************)
(* The drive of the account                                                *)
(***************************************************************************)
\* C37: every upload request goes to the drive of the account whose access
\* token it carries: once another account has signed in, the drive id found
\* for the account before is not used for its uploads.
C37_UploadsToDriveOfTokenAccount ==
    ("urls" \in DOMAIN lastOp /\ lastOp.op # "init") =>
        \A j \in 1..Len(lastOp.urls) :
            lastOp.urls[j].drive = <<"drive", lastOp.run.tokenOf>>

(***************************************************************************)
(* clearAllUnprocessed().                                                  *)
(***************************************************************************)
\* the source files of the entries that are not Completed
NotCompleted(q) ==
    {q[j].filePath : j \in {i \in Indexes(q) : ~Completed(q[i])}}

\* the files whose deletion the step requests
ClearRequested ==
    IF Len(clears') > Len(clears) THEN clears'[Len(clears')].pending ELSE {}

SilentLogin == startup.persisted # NoUser /\ startup.silent

\* C39: when the token cache holds an account for which a token is
\* acquired silently at startup, the window eventually holds that account
\* as its current user, in whatever order checkExistingAuth completes, the
\* window is created, the listener is registered and getCurrentUser is
\* asked and answered.
C39_AutoLoginEventuallyVisible ==
    SilentLogin ~> (currentUser = startup.persisted)

\* getCurrentUser was answered before checkExistingAuth had completed, so
\* the window first received null, and the announcement that followed
\* brought the user
C39_Witness ==
    /\ SilentLogin
    /\ lastOp.op = "received"
    /\ lastOp.channel = "user-authenticated"
    /\ lastOp.heard
    /\ startup.renderer = "done"
    /\ currentUser = startup.persisted

(***************************************************************************)
(* Rename of a file without extension.                                     *)
(***************************************************************************)
\* C40: after a rename of an entry whose original fileName contains no '.'
\* to a name that contains no '.', the entry's displayName is the name
\* the user typed, with nothing appended.
C40_RenameWithoutExtension ==
    (/\ RenamedWithoutDot
     /\ ~Includes(Entry(detectedFiles, lastOp.ts).fileName, "."))
        => Entry(detectedFiles, lastOp.ts).displayName = lastOp.input

====
